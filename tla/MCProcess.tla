------------------------------ MODULE MCProcess ------------------------------
(***************************************************************************)
(* The process, its database and its configuration.  focus picks the part  *)
(* that steps:                                                             *)
(*   tasks      the tasks, with little for the database to do;             *)
(*   database   the database, beside supervisors that spawn nothing;       *)
(*   config     starts and reloads, on files that differ from the shipped  *)
(*              defaults in up to two places of one topic.  The places are *)
(*              the values around each bound the code checks.              *)
(***************************************************************************)
EXTENDS Supervisor, Reload, FiniteSetsExt

VARIABLES
    focus,
    topic       \* which topic the operator of this behaviour edits

mcVars == <<processVars, daemon, focus, topic>>

ProcessTables == <<"quality", "hot">>

E(t, f, vs) == {<<t, f, v>> : v \in vs}

Topics ==
    [listeners |->
        E("server", "udp_listen", {"none", "exposed", "twice"}) \cup
        E("server", "tcp_listen", {"none"}) \cup
        E("server", "allow_from", {"empty", "lan", "multicast"}) \cup
        E("server", "any_policy", {"Forward"}) \cup E("rate_limit", "enabled", {FALSE}) \cup
        E("rate_limit", "per_client_burst", {1999, 2000}) \cup
        E("udp", "workers_per_socket", {0, 2}) \cup E("udp", "reuse_port", {TRUE}) \cup
        E("udp", "max_payload", {511, 512, 4096, 4097}) \cup
        E("udp", "non_edns_max_payload", {513}),
     connections |->
        E("tcp", "max_connections", {0, 63, 64, 8192}) \cup
        E("tcp", "max_connections_per_client", {0, 4096, 4097}) \cup
        E("tcp", "max_pipelined_queries", {0, 1}) \cup
        E("tcp", "max_message_bytes", {511, 512, 65536}) \cup
        E("resources", "max_inflight_queries", {0, 1}) \cup
        E("resources", "worker_threads", {"zero", "some", "many"}) \cup
        E("resources", "max_blocking_threads", {0, 128, 129}) \cup
        E("metrics", "listen", {"exposed"}) \cup E("metrics", "allow_non_loopback", {TRUE}) \cup
        E("admin", "socket_mode", {"other"}) \cup E("admin", "enabled", {FALSE}),
     timers |->
        E("server", "foreground_budget", {0, 1499, 1500, 1801, 30999, 31000}) \cup
        E("serve_stale", "client_timeout", {1499, 1500, 1801}) \cup
        E("serve_stale", "enabled", {FALSE}) \cup
        E("serve_stale", "max_stale", {0, 1, 604800, 604801}) \cup
        E("cache", "internal_max_ttl", {0, 1, 604800, 604801}) \cup
        E("cache", "negative_max_ttl", {0, 86401}) \cup
        E("ttl", "cap_cloudflare_augment", {0, 60, 61}),
     failures |->
        E("cache", "failure_min_ttl", {0, 2, 200, 300, 301}) \cup
        E("cache", "failure_max_ttl", {0, 1, 100, 301}) \cup
        E("cache", "failure_max_entries", {0}) \cup
        E("cache", "variant_max_memory_bytes", {1048575, 268435456, 268435457}) \cup
        E("ranking", "exploration_rate", {500, 501}) \cup
        E("ranking", "evidence_half_life", {0}) \cup E("logging", "level", {"debug"}) \cup
        E("logging", "query_log_sample", {1000, 1001}),
     features |->
        E("prefetch", "enabled", {FALSE}) \cup E("prefetch", "hot_set_size", {0}) \cup
        E("prefetch", "transition_prediction", {TRUE}) \cup
        E("prefetch", "transition_table_size", {0}) \cup E("probe", "enabled", {FALSE}) \cup
        E("probe", "queue_size", {0, 1}) \cup E("probe", "concurrency", {0, 256, 257}) \cup
        E("storage", "enabled", {FALSE}) \cup E("storage", "queue_size", {0, 1}) \cup
        E("dnssec", "max_concurrent_validations", {0}) \cup
        E("dnssec", "mode", {"Off"}) \cup E("dnssec", "trust_upstream_ad", {TRUE}) \cup
        E("dnssec", "trust_anchor_file", {"relative", "unreadable"}),
     cloudflare |->
        E("cloudflare", "enabled", {TRUE}) \cup
        E("cloudflare", "mode", {"VerifiedAugment"}) \cup E("probe", "enabled", {FALSE}) \cup
        E("cloudflare", "candidate_pool_max", {0, 1}) \cup
        E("sampling", "enabled", {FALSE}) \cup E("sampling", "buckets_per_prefix", {0, 4097}) \cup
        E("seeds", "enabled", {TRUE}) \cup E("seeds", "endpoints", {"disabled", "http"}) \cup
        E("official", "min_ipv4_prefixes", {0}) \cup
        E("official", "refresh_interval", {299, 300}) \cup
        E("augment", "max_added", {0, 3}),
     upstreams |->
        E("root", "upstreams", {"private", "documentation", "encrypted", "encrypted address",
                                "malformed", "empty"}) \cup
        E("root", "proxies", {"one", "malformed"}) \cup
        E("tls", "extra_ca_files", {"relative", "unreadable"}) \cup
        E("tls", "quic_zero_rtt", {TRUE}) \cup E("ecs", "mode", {"FixedEgress"}) \cup
        E("egress", "ipv4", {"public", "special", "long"}) \cup
        E("local", "suffix_rules", {"sound", "undefined group"}) \cup
        E("local", "local_ttl", {0, 86400, 86401})]

\* A file is the set of its differences from the defaults.
FilesOf(edits) ==
    {file \in {{}} \cup {{d, e} : d, e \in edits} :
        \A d, e \in file : d # e => <<d[1], d[2]>> # <<e[1], e[2]>>}

MCFiles == UNION {FilesOf(Topics[t]) : t \in DOMAIN Topics}
FilesAbout == [t \in DOMAIN Topics |-> FilesOf(Topics[t])]

\* A file spells out the defaults with its differences applied.
Edited(e, c) == [c EXCEPT ![e[1]] = [@ EXCEPT ![e[2]] = e[3]]]
MCContents == [file \in MCFiles |-> FoldSet(Edited, Default, file)]

MCInit ==
    /\ ProcessInit /\ ReloadInit
    /\ \/ focus \in {"tasks", "database"} /\ topic = "listeners"
       \/ focus = "config" /\ topic \in DOMAIN Topics

ConfigStep ==
    \/ \E file \in FilesAbout[topic] : Start(file)
    \/ \E file \in FilesAbout[topic] : ReloadFile(file)
    \/ Stop

MCNext ==
    /\ UNCHANGED <<focus, topic>>
    /\ \/ focus = "tasks" /\ ProcessNext /\ UNCHANGED <<daemon, learned, dbfile>>
       \/ focus = "database" /\ ProcessNext /\ UNCHANGED daemon
             /\ \A t \in Tasks : child'[t] = "none"
       \/ focus = "config" /\ ConfigStep /\ UNCHANGED processVars

MCSpec == MCInit /\ [][MCNext]_mcVars /\ ProcessFairness
=============================================================================
