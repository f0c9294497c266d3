------------------------------- MODULE Config -------------------------------
(***************************************************************************)
(* The configuration tree, its defaults and its validation                 *)
(* (config/mod.rs, validate.rs).                                           *)
(*                                                                         *)
(* A definition per table of the file gives its fields and their defaults. *)
(* A list, a path or a prefix is the name of the kind of value it holds; a *)
(* fraction is in thousandths; a time is in milliseconds where the code    *)
(* compares milliseconds and in seconds elsewhere.  A check that only      *)
(* bounds a number is an interval.                                         *)
(***************************************************************************)
EXTENDS Naturals

-----------------------------------------------------------------------------
(* The tables.                                                             *)

UdpConfig ==
    [max_payload |-> 1232, non_edns_max_payload |-> 512, recv_buffer_bytes |-> 4194304,
     send_buffer_bytes |-> 4194304, reuse_port |-> FALSE, workers_per_socket |-> 1]

TcpConfig ==
    [idle_timeout |-> 10, max_connection_lifetime |-> 300, max_connections |-> 4096,
     max_connections_per_client |-> 64, max_pipelined_queries |-> 256,
     max_message_bytes |-> 65535, advertise_edns_keepalive |-> TRUE]

RateLimitConfig ==
    [enabled |-> TRUE, per_client_qps |-> 2000, per_client_burst |-> 4000,
     global_qps |-> 200000, global_burst |-> 400000, client_table_size |-> 65536]

ServerConfig ==
    [udp_listen |-> "loopback", tcp_listen |-> "loopback", allow_from |-> "omitted",
     deny_from |-> "none", foreground_budget |-> 2500, any_policy |-> "Minimal",
     special_use |-> "Local"]

CacheConfig ==
    [max_memory_bytes |-> 268435456, failure_max_entries |-> 20000,
     variant_max_memory_bytes |-> 33554432, quality_max_entries |-> 100000,
     internal_max_ttl |-> 86400, negative_max_ttl |-> 3600, failure_min_ttl |-> 1,
     failure_max_ttl |-> 300]

TtlConfig ==
    [cap_default |-> 300, cap_optimized_multi |-> 90, cap_cloudflare_preserve |-> 60,
     cap_cloudflare_augment |-> 25, cap_network_change |-> 15, cap_serve_stale |-> 30,
     network_change_window |-> 300]

RankingConfig ==
    [enabled |-> TRUE, neutral_cost_ms |-> 120, failure_penalty_ms |-> 400,
     tail_weight |-> 350, jitter_weight |-> 250, uncertainty_penalty_ms |-> 60,
     stale_sample_penalty_ms |-> 40, sample_max_age |-> 1800, evidence_half_life |-> 3600,
     hysteresis |-> 120, min_successes_to_lead |-> 3, exploration_rate |-> 20,
     consecutive_failure_base |-> 1800]

ServeStaleConfig ==
    [enabled |-> TRUE, max_stale |-> 86400, client_timeout |-> 1800, retry_interval |-> 30,
     include_ede |-> TRUE]

PrefetchConfig ==
    [enabled |-> TRUE, trigger_fraction |-> 150, min_hits |-> 3, hot_set_size |-> 20000,
     global_qps |-> 50, per_key_min_interval |-> 5, warm_on_start |-> 200,
     transition_prediction |-> FALSE, transition_table_size |-> 20000]

UpstreamTlsConfig ==
    [use_system_roots |-> TRUE, extra_ca_files |-> "none", session_resumption |-> TRUE,
     quic_zero_rtt |-> FALSE]

SchedulerConfig ==
    [hedge_enabled |-> TRUE, hedge_percentile |-> 950, hedge_min_delay |-> 20,
     hedge_max_delay |-> 400, hedge_max_fraction |-> 150, query_timeout |-> 1500,
     explore_rate |-> 20, circuit_failure_threshold |-> 5, circuit_open_duration |-> 20,
     circuit_half_open_successes |-> 2, emergency_fanout |-> TRUE, emergency_fanout_max |-> 3]

DnssecConfig ==
    [mode |-> "Background", trust_anchor_file |-> "none", trust_upstream_ad |-> FALSE,
     max_concurrent_validations |-> 256, validation_cache_entries |-> 10000,
     max_validation_depth |-> 12, corroborate_negative |-> TRUE,
     proof_completion_timeout |-> 20, extended_errors |-> TRUE]

EcsConfig == [mode |-> "Disabled"]
EcsScope == [ipv4 |-> "none", ipv6 |-> "none"]

ProbeConfig ==
    [enabled |-> TRUE, queue_size |-> 8192, concurrency |-> 8,
     global_connections_per_second |-> 64, tcp_timeout |-> 1500, tls_timeout |-> 3000,
     http_timeout |-> 5000, per_ip_cooldown |-> 300, per_prefix_cooldown |-> 30,
     per_domain_cooldown |-> 600, max_candidates_per_rrset |-> 4, extra_ports |-> "https",
     max_response_bytes |-> 16384, enable_http3 |-> TRUE,
     daily_bandwidth_budget_bytes |-> 67108864, allow_special_use_targets |-> "none",
     profiles |-> "none"]

NetworkConfig ==
    [enabled |-> TRUE, poll_interval |-> 5, debounce |-> 3, reference_v4 |-> "default",
     reference_v6 |-> "default", confidence_decay_on_change |-> 250, relearn_window |-> 600]

OfficialPrefixConfig ==
    [api_url |-> "https", ipv4_url |-> "https", ipv6_url |-> "https",
     refresh_interval |-> 86400, timeout |-> 10, max_response_bytes |-> 262144,
     min_ipv4_prefixes |-> 8, min_ipv6_prefixes |-> 4, api_token_file |-> "none",
     api_token_env |-> "none", cache_file |-> "default"]

SeedConfig ==
    [enabled |-> FALSE, endpoints |-> "default", refresh_interval |-> 2400, timeout |-> 10,
     max_response_bytes |-> 131072, max_addresses_per_response |-> 256,
     resolve_hostnames |-> TRUE]

SamplingConfig ==
    [enabled |-> TRUE, round_interval |-> 300, addresses_per_round |-> 32,
     max_new_candidates_per_hour |-> 512, buckets_per_prefix |-> 64, exploit_fraction |-> 300,
     seed |-> 1]

AugmentConfig ==
    [max_added |-> 2, min_validations |-> 3, validation_ttl |-> 3600, min_advantage |-> 120,
     min_samples |-> 8]

CloudflareConfig ==
    [enabled |-> FALSE, mode |-> "Preserve", probe_hosts |-> "one", allow_domains |-> "none",
     deny_domains |-> "none", candidate_pool_max |-> 4096, static_candidates |-> "none"]

DatasetsConfig ==
    [hosts_files |-> "none", domain_category_files |-> "none", geoip_mmdb |-> "none",
     asn_mmdb |-> "none", reload_interval |-> 3600, max_file_bytes |-> 67108864,
     max_records |-> 2000000]

LocalConfig == [hosts |-> "none", zones |-> "none", suffix_rules |-> "none", local_ttl |-> 60]

StorageConfig ==
    [enabled |-> TRUE, path |-> "absolute", flush_interval |-> 30, queue_size |-> 8192,
     max_quality_rows |-> 50000, max_hot_rows |-> 20000, max_candidate_rows |-> 20000,
     row_max_age |-> 2592000]

MetricsConfig == [enabled |-> TRUE, listen |-> "loopback", allow_non_loopback |-> FALSE]
LoggingConfig == [level |-> "info", json |-> FALSE, query_log |-> FALSE, query_log_sample |-> 10]
AdminConfig ==
    [enabled |-> TRUE, socket |-> "absolute", socket_mode |-> "group",
     max_request_bytes |-> 65536]

ResourceConfig ==
    [worker_threads |-> "unset", max_inflight_queries |-> 20000,
     max_inflight_upstream |-> 4000, max_blocking_threads |-> 4, systemd_watchdog |-> TRUE]

\* The sub-tables `server.udp`, `cloudflare.seeds`, ... are named by their last part.
Default ==
    [root |-> [upstreams |-> "plain", proxies |-> "none"],
     server |-> ServerConfig, udp |-> UdpConfig, tcp |-> TcpConfig,
     rate_limit |-> RateLimitConfig, cache |-> CacheConfig, ttl |-> TtlConfig,
     ranking |-> RankingConfig, serve_stale |-> ServeStaleConfig,
     prefetch |-> PrefetchConfig, tls |-> UpstreamTlsConfig, dnssec |-> DnssecConfig,
     ecs |-> EcsConfig, egress |-> EcsScope, probe |-> ProbeConfig, network |-> NetworkConfig,
     cloudflare |-> CloudflareConfig, official |-> OfficialPrefixConfig,
     seeds |-> SeedConfig, sampling |-> SamplingConfig, augment |-> AugmentConfig,
     datasets |-> DatasetsConfig, local |-> LocalConfig, storage |-> StorageConfig,
     metrics |-> MetricsConfig, logging |-> LoggingConfig, admin |-> AdminConfig,
     resources |-> ResourceConfig]

Leaves == UNION {{<<t, f>> : f \in DOMAIN Default[t]} : t \in DOMAIN Default}

-----------------------------------------------------------------------------
(* The derived upstream tree.                                              *)

\* desugar: an entry that does not parse, an encrypted one that names no host, or
\* no entry at all is an error.
Desugars(entries) == entries \notin {"malformed", "encrypted address", "empty"}

UpstreamServer(transport, address, name, path) ==
    [transport |-> transport, address |-> address, server_name |-> name, path |-> path,
     trust_ad |-> FALSE, enable_cookies |-> "unset", ecs |-> EcsScope, weight |-> 100,
     enabled |-> TRUE]

desugar(entries) ==
    CASE entries = "plain"         -> {UpstreamServer("Udp", "global", "none", "none")}
      [] entries = "private"       -> {UpstreamServer("Udp", "Private", "none", "none")}
      [] entries = "documentation" -> {UpstreamServer("Udp", "Documentation", "none", "none")}
      [] entries = "encrypted"     ->
            {UpstreamServer("Dot", "global", "dns.name", "none"),
             UpstreamServer("Doh2", "unresolved", "dns.name", "absolute")}

\* One group under the default scheduler, whatever the file says; the trust settings
\* are those of the file.
build_upstreams(c) ==
    [default_group |-> "default", tls |-> c.tls,
     groups |-> {[name |-> "default", servers |-> desugar(c.root.upstreams),
                  scheduler |-> SchedulerConfig]}]

-----------------------------------------------------------------------------
(* Validation.                                                             *)

\* The limits of `validate` that occur more than once or are large.
Day == 86400
Week == 604800
MiB == 1048576
MAX_RATE == 10000
MAX_UDP_PAYLOAD == 4096
MAX_MESSAGE == 65535
MAX_BUDGET == 30999
MAX_POOL == 1000000
MAX_SAMPLES == 4096

IsEncrypted(transport) == transport \in {"Dot", "Doh2", "Doh3", "Doq"}
Exposed(s) == "exposed" \in {s.udp_listen, s.tcp_listen}

validate_rate_limit(r) ==
    r.enabled => /\ r.per_client_qps > 0 /\ r.global_qps > 0
                 /\ r.per_client_burst >= r.per_client_qps
                 /\ r.global_burst >= r.global_qps
                 /\ r.client_table_size > 0

validate_udp(u) ==
    /\ u.max_payload \in 512..MAX_UDP_PAYLOAD /\ u.non_edns_max_payload = 512
    /\ u.workers_per_socket > 0 /\ (u.workers_per_socket > 1 => u.reuse_port)

validate_server(c) ==
    LET s == c.server IN
    /\ {s.udp_listen, s.tcp_listen} # {"none"} /\ "twice" \notin {s.udp_listen, s.tcp_listen}
    /\ validate_udp(c.udp)
    /\ c.tcp.max_connections > 0
    /\ c.tcp.max_connections_per_client \in 1..c.tcp.max_connections
    /\ c.tcp.max_message_bytes \in 512..MAX_MESSAGE /\ c.tcp.max_pipelined_queries > 0
    /\ s.foreground_budget \in 1..MAX_BUDGET
    /\ validate_rate_limit(c.rate_limit)
    /\ Exposed(s) => s.allow_from # "omitted"
    /\ s.allow_from # "multicast"
    /\ s.any_policy = "Forward" /\ Exposed(s) => c.rate_limit.enabled

\* Mutant: the timer may use up the whole budget.
validate_serve_staleAttempt(c) ==
    c.serve_stale.enabled =>
        /\ c.serve_stale.max_stale \in 1..Week
        /\ c.serve_stale.client_timeout <= c.server.foreground_budget

validate_serve_stale(c) ==
    c.serve_stale.enabled =>
        /\ c.serve_stale.max_stale \in 1..Week
        /\ c.serve_stale.client_timeout < c.server.foreground_budget
        /\ c.serve_stale.client_timeout <= 1800

validate_ranking(r) ==
    /\ r.hysteresis \in 0..1000 /\ r.exploration_rate \in 0..500
    /\ r.neutral_cost_ms > 0 /\ r.consecutive_failure_base >= 1000
    /\ r.evidence_half_life > 0

validate_prefetch(p) ==
    p.enabled => /\ p.trigger_fraction \in 10..900 /\ p.global_qps > 0 /\ p.hot_set_size > 0
                 /\ p.transition_prediction => p.transition_table_size > 0

validate_cache_and_ttl(c) ==
    /\ c.cache.max_memory_bytes >= MiB
    /\ c.cache.variant_max_memory_bytes \in MiB..c.cache.max_memory_bytes
    /\ c.cache.internal_max_ttl \in 1..Week /\ c.cache.negative_max_ttl <= Day
    /\ c.cache.failure_min_ttl >= 1
    /\ c.cache.failure_max_ttl \in c.cache.failure_min_ttl..300
    /\ \A cap \in DOMAIN TtlConfig \ {"network_change_window"} : c.ttl[cap] \in 1..Day
    /\ c.ttl.cap_cloudflare_augment <= 60
    /\ validate_serve_stale(c)
    /\ validate_ranking(c.ranking) /\ validate_prefetch(c.prefetch)

validate_upstream_server(s) ==
    /\ s.address # "none" \/ s.server_name # "none"
    /\ s.address \in {"global", "unresolved", "Private", "SharedAddressSpace", "Loopback"}
    /\ IsEncrypted(s.transport) => s.server_name \notin {"none", "empty", "address"}
    /\ s.transport \in {"Doh2", "Doh3"} => s.path # "relative"
    /\ s.transport \notin {"Doh2", "Doh3"} => s.path = "none"
    /\ s.trust_ad => IsEncrypted(s.transport)
    /\ s.enable_cookies = "on" => ~IsEncrypted(s.transport)
    /\ s.weight > 0

validate_scheduler(sc, budget) ==
    /\ sc.hedge_percentile \in 500..999 /\ sc.hedge_min_delay <= sc.hedge_max_delay
    /\ sc.hedge_max_fraction \in 0..1000
    /\ sc.query_timeout \in 1..budget
    /\ sc.explore_rate \in 0..500
    /\ sc.circuit_failure_threshold > 0 /\ sc.circuit_half_open_successes > 0
    /\ sc.emergency_fanout => sc.emergency_fanout_max > 0

validate_upstream(c) ==
    LET u == build_upstreams(c) IN
    /\ u.groups # {}
    /\ \A g \in u.groups :
          /\ \E s \in g.servers : s.enabled
          /\ \A s \in g.servers : validate_upstream_server(s)
          /\ validate_scheduler(g.scheduler, c.server.foreground_budget)
    /\ \E g \in u.groups : g.name = u.default_group
    /\ u.tls.extra_ca_files # "relative" /\ ~u.tls.quic_zero_rtt

validate_dnssec(c) ==
    /\ c.dnssec.max_concurrent_validations > 0
    /\ c.dnssec.trust_upstream_ad =>
          /\ c.dnssec.mode \notin {"Background", "Strict"}
          /\ \E g \in build_upstreams(c).groups : \E s \in g.servers : s.trust_ad
    /\ c.dnssec.trust_anchor_file # "relative"

validate_ecs(c) ==
    /\ c.ecs.mode = "FixedEgress" =>
          /\ {c.egress.ipv4, c.egress.ipv6} # {"none"}
          /\ {c.egress.ipv4, c.egress.ipv6} \cap {"special", "long"} = {}
    /\ \A g \in build_upstreams(c).groups : \A s \in g.servers :
          "special" \notin {s.ecs.ipv4, s.ecs.ipv6}

\* Every profile is named once, has domains, a path, HEAD or GET, valid statuses and
\* well-formed digests and protocols.
validate_profile(p) == p \in {"none", "sound"}

validate_probe(c) ==
    LET p == c.probe IN
    p.enabled =>
        /\ p.queue_size > 0 /\ p.concurrency \in 1..256 /\ p.max_candidates_per_rrset > 0
        /\ p.global_connections_per_second \in 1..MAX_RATE
        /\ p.max_response_bytes \in 1..MiB
        /\ p.extra_ports \notin {"zero", "many"}
        /\ p.allow_special_use_targets \notin {"global", "LinkLocal", "CloudMetadata"}
        /\ validate_profile(p.profiles)

validate_official(o) ==
    /\ {o.api_url, o.ipv4_url, o.ipv6_url} = {"https"} /\ o.refresh_interval >= 300
    /\ o.max_response_bytes \in 1..(8 * MiB) /\ o.min_ipv4_prefixes > 0

validate_seeds(e) ==
    e.enabled => /\ e.endpoints \notin {"disabled", "unnamed", "twice", "http"}
                 /\ e.refresh_interval >= 60
                 /\ e.max_response_bytes \in 1..(4 * MiB)
                 /\ e.max_addresses_per_response \in 1..65536

validate_sampling(s) ==
    s.enabled => /\ s.addresses_per_round \in 1..MAX_SAMPLES /\ s.max_new_candidates_per_hour > 0
                 /\ s.buckets_per_prefix \in 1..MAX_SAMPLES /\ s.exploit_fraction \in 0..1000
                 /\ s.round_interval >= 10

validate_augment(a) ==
    /\ a.max_added \in 1..2 /\ a.min_validations > 0
    /\ a.min_advantage \in 0..1000 /\ a.validation_ttl \in 1..Day

validate_cloudflare(c) ==
    LET f == c.cloudflare IN
    f.enabled =>
        /\ f.mode = "VerifiedAugment" => c.probe.enabled
        /\ validate_official(c.official) /\ validate_seeds(c.seeds)
        /\ validate_sampling(c.sampling) /\ validate_augment(c.augment)
        /\ f.candidate_pool_max \in 1..MAX_POOL
        /\ f.probe_hosts \notin {"none", "path"}
        /\ f.static_candidates # "special"

validate_local(c) ==
    /\ c.local.suffix_rules \notin {"empty", "undefined group"}
    /\ c.local.hosts \notin {"unnamed", "no address"}
    /\ c.local.zones \notin {"unnamed", "empty record"}
    /\ c.local.local_ttl \in 1..Day
    /\ c.datasets.max_file_bytes > 0 /\ c.datasets.max_records > 0

validate_observability(c) ==
    /\ c.metrics.enabled /\ c.metrics.listen # "loopback" => c.metrics.allow_non_loopback
    /\ c.logging.query_log_sample \in 0..1000
    /\ c.admin.enabled => /\ c.admin.socket = "absolute" /\ c.admin.socket_mode # "other"
                          /\ c.admin.max_request_bytes \in 1..MiB
    /\ c.storage.enabled => c.storage.path = "absolute" /\ c.storage.queue_size > 0
    /\ c.resources.worker_threads \notin {"zero", "many"}
    /\ c.resources.max_inflight_queries > 0 /\ c.resources.max_inflight_upstream > 0
    /\ c.resources.max_blocking_threads \in 1..128

validate(c) ==
    /\ validate_server(c) /\ validate_cache_and_ttl(c) /\ validate_upstream(c)
    /\ validate_dnssec(c) /\ validate_ecs(c) /\ validate_probe(c) /\ validate_cloudflare(c)
    /\ validate_local(c) /\ validate_observability(c)

\* from_toml, after the document has parsed: what the file says, or a refusal.
from_toml(c) ==
    Desugars(c.root.upstreams) /\ c.root.proxies # "malformed" /\ validate(c)
=============================================================================
