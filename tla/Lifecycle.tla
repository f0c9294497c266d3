------------------------------ MODULE Lifecycle ------------------------------
(***************************************************************************)
(* The life of one process: how a configuration file becomes the running   *)
(* state (bin/egressdnsd.rs run_daemon, bootstrap, serve; runtime/mod.rs   *)
(* from_config, build_state), and how `reload` replaces it.                *)
(*                                                                         *)
(* App::reload takes no lock.  It is called by the signal loop and by      *)
(* every `reload` connection of the administration socket, so two of them  *)
(* can run at once, each one a sequence of single stores: the state swap,  *)
(* the probe switch, the prefetch switch, the Cloudflare settings, and     *)
(* last a blocking job that rebuilds the datasets.  The periodic dataset   *)
(* task (tasks/maintenance.rs run_datasets) publishes to the same place.   *)
(*                                                                         *)
(* Conf[f] is what version f of the file says, as far as reload tells it   *)
(* apart: `valid` (parsed and accepted by validate.rs), `listen` and       *)
(* `fixed` (the settings restart_required compares), `upstreams`,          *)
(* `proxies`, the switches `probe`, `prefetch` and `cloudflare`, `tcp`     *)
(* (the connection limits),                                                *)
(* and `local`: the hosts, zones and dataset files `data`, whether the     *)
(* zone records parse `zones_ok` (validate.rs does not look at them), and  *)
(* whether the datasets are rebuilt periodically `interval`.               *)
(***************************************************************************)
EXTENDS Endpoints

CONSTANTS Files,        \* the versions of the configuration file
          Conf,         \* Conf[f]: what version f says
          Reloaders,    \* the callers of App::reload
          Gateway,      \* the default gateway, or None
          Lookups,      \* outcomes of a name lookup: functions to address lists
          NoConfig

ASSUME LifecycleAssumption ==
    /\ NoConfig \notin Files
    /\ \A f \in Files :
         /\ Conf[f].valid \in BOOLEAN /\ Conf[f].local.zones_ok \in BOOLEAN
         /\ Conf[f].upstreams \in Seq(Range(Conf[f].upstreams))
         /\ \A e \in Range(Conf[f].upstreams) : IsEntry(e)
         /\ \A l \in Conf[f].listen : l = [addr |-> l.addr, port |-> l.port]
    /\ Gateway = None \/ Gateway \in IpAddrs
    /\ \A answers \in Lookups : \A n \in Names : answers[n] \in Seq(IpAddrs)

VARIABLES
    file,       \* the configuration file on disk
    phase,      \* down, serving or stopping
    started,    \* the configuration the process started with
    config,     \* RuntimeState.config
    routes,     \* the routes of RuntimeState's registry
    toggles,    \* ProbeQueue, PrefetchState and CloudflareState switches
    tcp_cfg,    \* the connection limits serve_tcp captured
    datasets,   \* DatasetStore: the local data being served
    reloader,   \* reloader[r]: where a call of reload is, and its candidate
    jobs,       \* the local settings whose dataset build was spawned
    task,       \* the periodic dataset task
    reloaded,   \* ghost: whether reload ever replaced the state
    adopted     \* ghost: the gateway `auto` put in the list, or None

lifeVars == <<file, phase, started, config, routes, toggles, tcp_cfg, datasets, reloader,
              jobs, task, reloaded, adopted>>

Locals == {Conf[f].local : f \in Files}
Idle == [pc |-> "idle", candidate |-> NoConfig]
Switches(c) == [s \in {"probe", "prefetch", "cloudflare"} |-> Conf[c][s]]
NoTask == [pc |-> "idle", local |-> NoConfig]
NoSwitches == [probe |-> FALSE, prefetch |-> FALSE, cloudflare |-> FALSE]

LifecycleInit ==
    /\ file \in Files
    /\ phase = "down"
    /\ started = NoConfig /\ config = NoConfig /\ routes = {}
    /\ toggles = NoSwitches /\ tcp_cfg = NoConfig /\ datasets = NoConfig
    /\ reloader = [r \in Reloaders |-> Idle]
    /\ jobs = {} /\ task = NoTask
    /\ reloaded = FALSE /\ adopted = None

\* The operator, or configuration management, rewrites the file.
EditFile(f) ==
    /\ file # f
    /\ file' = f
    /\ UNCHANGED <<phase, started, config, routes, toggles, tcp_cfg, datasets, reloader, jobs,
                   task, reloaded, adopted>>

\* Config::load: the endpoint list, the proxy list and validate.rs must all accept.
Loadable ==
    {f \in Files : Conf[f].valid /\ desugar(Conf[f].upstreams).ok /\ parse_all(Conf[f].proxies).ok}

\* The datasets of some local settings, when the zones build; otherwise what was there.
Built(local, before) == IF local.zones_ok THEN local ELSE before

\* run_daemon, bootstrap and serve.  What the network answers is open: the gateway
\* probe, the region and the lookups.  A failure on the way leaves the process down.
Start(udp, tcp, looped, region, viaSeeds, viaSystem) ==
    LET gateway == judge_gateway(Gateway, Conf[file].listen, udp, tcp, looped)
        expanded == expand_auto(Conf[file].upstreams, gateway, region)
    IN  /\ phase = "down"
        /\ file \in Loadable
        /\ detect_cycles(expanded, Conf[file].listen) = {}
        /\ phase' = "serving"
        /\ started' = file /\ config' = file
        /\ routes' = build(resolve_pending(expanded, viaSeeds, viaSystem), Conf[file].proxies)
        /\ toggles' = Switches(file)
        /\ tcp_cfg' = Conf[file].tcp
        /\ datasets' = Built(Conf[file].local, NoConfig)
        /\ task' = [pc |-> "asleep", local |-> Conf[file].local]
        /\ reloaded' = FALSE
        /\ adopted' = IF HasAuto(Conf[file].upstreams) THEN gateway ELSE None
        /\ UNCHANGED <<file, reloader, jobs>>

-----------------------------------------------------------------------------
(* App::reload *)

\* Mutant: a configuration that fails to load is carried on with.
ReloadLoadAnything(r) ==
    /\ phase = "serving" \/ (phase = "stopping" /\ r # "signal")
    /\ reloader[r] = Idle
    /\ reloader' = [reloader EXCEPT ![r] = [pc |-> "loaded", candidate |-> file]]
    /\ UNCHANGED <<file, phase, started, config, routes, toggles, tcp_cfg, datasets, jobs,
                   task, reloaded, adopted>>

\* Config::load of the file as it is now.  No bootstrap and no `auto` probing here.
ReloadLoad(r) ==
    /\ phase = "serving" \/ (phase = "stopping" /\ r # "signal")
    /\ reloader[r] = Idle
    /\ file \in Loadable
    /\ reloader' = [reloader EXCEPT ![r] = [pc |-> "loaded", candidate |-> file]]
    /\ UNCHANGED <<file, phase, started, config, routes, toggles, tcp_cfg, datasets, jobs,
                   task, reloaded, adopted>>

\* config/reload.rs: some setting that is fixed at startup differs.
restart_required(old, new) ==
    Conf[old].listen # Conf[new].listen \/ Conf[old].fixed # Conf[new].fixed

Refuse(r) ==
    /\ reloader' = [reloader EXCEPT ![r] = Idle]
    /\ UNCHANGED <<file, phase, started, config, routes, toggles, tcp_cfg, datasets, jobs,
                   task, reloaded, adopted>>

\* Refused when a fixed setting changed, or when build_state fails (the trust
\* roots are files, so it may); otherwise the replacement state is complete.
ReloadRefused(r) == reloader[r].pc = "loaded" /\ Refuse(r)

ReloadBuild(r) ==
    /\ reloader[r].pc = "loaded"
    /\ ~restart_required(config, reloader[r].candidate)
    /\ reloader' = [reloader EXCEPT ![r].pc = "built"]
    /\ UNCHANGED <<file, phase, started, config, routes, toggles, tcp_cfg, datasets, jobs,
                   task, reloaded, adopted>>

ReloadSwap(r) ==
    LET c == reloader[r].candidate
    IN  /\ reloader[r].pc = "built"
        /\ config' = c
        /\ routes' = build(desugar(Conf[c].upstreams).out, Conf[c].proxies)
        /\ reloaded' = TRUE
        /\ reloader' = [reloader EXCEPT ![r].pc = "swapped"]
        /\ UNCHANGED <<file, phase, started, toggles, tcp_cfg, datasets, jobs, task, adopted>>

\* probes.set_enabled, prefetch.set_enabled and cloudflare.reconfigure, in that order.
ReloadSwitch(r, from, switch, to) ==
    /\ reloader[r].pc = from
    /\ toggles' = [toggles EXCEPT ![switch] = Conf[reloader[r].candidate][switch]]
    /\ reloader' = [reloader EXCEPT ![r].pc = to]
    /\ UNCHANGED <<file, phase, started, config, routes, tcp_cfg, datasets, jobs, task,
                   reloaded, adopted>>

ReloadSpawn(r) ==
    /\ reloader[r].pc = "toggled"
    /\ jobs' = jobs \cup {Conf[reloader[r].candidate].local}
    /\ reloader' = [reloader EXCEPT ![r] = Idle]
    /\ UNCHANGED <<file, phase, started, config, routes, toggles, tcp_cfg, datasets, task,
                   reloaded, adopted>>

\* The blocking job of a reload: build, and publish when the build succeeded.
PublishJob(local) ==
    /\ local \in jobs
    /\ jobs' = jobs \ {local}
    /\ datasets' = Built(local, datasets)
    /\ UNCHANGED <<file, phase, started, config, routes, toggles, tcp_cfg, reloader, task,
                   reloaded, adopted>>

-----------------------------------------------------------------------------
(* tasks/maintenance.rs run_datasets *)

\* The interval elapsed.  With a zero interval the settings are only read again.
DatasetTick ==
    /\ phase = "serving" /\ task.pc = "asleep"
    /\ task' = IF task.local.interval
               THEN [task EXCEPT !.pc = "building"]
               ELSE [task EXCEPT !.local = Conf[config].local]
    /\ UNCHANGED <<file, phase, started, config, routes, toggles, tcp_cfg, datasets, reloader,
                   jobs, reloaded, adopted>>

\* Mutant: the settings read at the start are kept for every round.
DatasetBuildOnce ==
    /\ phase = "serving" /\ task.pc = "building"
    /\ datasets' = Built(task.local, datasets)
    /\ task' = [task EXCEPT !.pc = "asleep"]
    /\ UNCHANGED <<file, phase, started, config, routes, toggles, tcp_cfg, reloader, jobs,
                   reloaded, adopted>>

\* The build uses the settings read before the wait; the next round reads them again.
DatasetBuild ==
    /\ phase = "serving" /\ task.pc = "building"
    /\ datasets' = Built(task.local, datasets)
    /\ task' = [pc |-> "asleep", local |-> Conf[config].local]
    /\ UNCHANGED <<file, phase, started, config, routes, toggles, tcp_cfg, reloader, jobs,
                   reloaded, adopted>>

-----------------------------------------------------------------------------
\* A stop signal: readiness goes down and the control plane is cancelled.
Shutdown ==
    /\ phase = "serving"
    /\ phase' = "stopping"
    /\ task' = NoTask
    /\ UNCHANGED <<file, started, config, routes, toggles, tcp_cfg, datasets, reloader, jobs,
                   reloaded, adopted>>

Exit ==
    /\ phase = "stopping"
    /\ phase' = "down"
    /\ started' = NoConfig /\ config' = NoConfig /\ routes' = {}
    /\ toggles' = NoSwitches /\ tcp_cfg' = NoConfig /\ datasets' = NoConfig
    /\ reloader' = [r \in Reloaders |-> Idle]
    /\ jobs' = {} /\ task' = NoTask
    /\ reloaded' = FALSE /\ adopted' = None
    /\ UNCHANGED file

Reload(r) ==
    \/ ReloadLoad(r) \/ ReloadRefused(r) \/ ReloadBuild(r) \/ ReloadSwap(r)
    \/ ReloadSwitch(r, "swapped", "probe", "probes")
    \/ ReloadSwitch(r, "probes", "prefetch", "prefetch")
    \/ ReloadSwitch(r, "prefetch", "cloudflare", "toggled")
    \/ ReloadSpawn(r)

LifecycleNext ==
    \/ \E f \in Files : EditFile(f)
    \/ \E udp, tcp, looped \in BOOLEAN, region \in {"China", "Global"},
          viaSeeds, viaSystem \in Lookups :
         Start(udp, tcp, looped, region, viaSeeds, viaSystem)
    \/ \E r \in Reloaders : Reload(r)
    \/ \E local \in jobs : PublishJob(local)
    \/ DatasetTick \/ DatasetBuild
    \/ Shutdown \/ Exit

LifecycleSpec == LifecycleInit /\ [][LifecycleNext]_lifeVars

\* The runtime polls what is ready: the blocking jobs and the periodic task run.
LifecycleFairness ==
    /\ WF_lifeVars(DatasetTick) /\ WF_lifeVars(DatasetBuild)
    /\ \A local \in Locals : WF_lifeVars(PublishJob(local))

LifecycleFairSpec == LifecycleSpec /\ LifecycleFairness

-----------------------------------------------------------------------------
(* Properties *)

\* Every variable keeps its type, and a process that is down holds nothing.
LifecycleTypeOK ==
    /\ file \in Files
    /\ phase \in {"down", "serving", "stopping"}
    /\ {started, config} \subseteq Files \cup {NoConfig}
    /\ {datasets, task.local} \subseteq Locals \cup {NoConfig}
    /\ toggles \in [{"probe", "prefetch", "cloudflare"} -> BOOLEAN]
    /\ jobs \subseteq Locals /\ reloaded \in BOOLEAN
    /\ task.pc \in {"idle", "asleep", "building"}
    /\ \A r \in Reloaders :
         /\ reloader[r].pc \in {"idle", "loaded", "built", "swapped", "probes", "prefetch",
                                "toggled"}
         /\ reloader[r].candidate \in Files \cup {NoConfig}
         /\ reloader[r].pc = "idle" => reloader[r] = Idle
    /\ phase = "down" <=> config = NoConfig

\* The settings that were bound at startup (listeners, semaphores, channel sizes: the
\* list of config/reload.rs restart_required) are, after any chain of accepted reloads,
\* two of them at once included, what the process started with.
FixedForLife ==
    phase # "down" =>
      Conf[config].listen = Conf[started].listen /\ Conf[config].fixed = Conf[started].fixed

\* A configuration that does not load leaves no trace (runtime/mod.rs reload: "If any step
\* fails, the running configuration is untouched"): what runs, and what a call of reload,
\* a dataset job or the periodic task is still to store, comes from files that load.
RefusedLeavesNoTrace ==
    /\ phase # "down" => config \in Loadable
    /\ \A r \in Reloaders :
         reloader[r].pc \notin {"idle", "loaded"} => reloader[r].candidate \in Loadable
    /\ ({datasets, task.local} \cup jobs) \subseteq {Conf[f].local : f \in Loadable} \cup {NoConfig}

\* The identities the operator wrote in file f: the hosts of the URIs, and for a word or
\* a handle the names its provider publishes.
Written ==
    [f \in Files |->
       LET entries == Range(Conf[f].upstreams) \cup Range(ChinaEntries) \cup Range(GlobalEntries)
           profiles == {e \in entries : e.form = "builtin"}
           all == entries \cup UNION {Range(builtin_expand(e.profile)) : e \in profiles}
           hosts == {e.host : e \in {x \in all : x.form = "uri"}}
           words == {e.word : e \in {x \in all : x.form = "word"}}
           handles == {h \in hosts : is_bare_alias(h)} \cup words
       IN  (hosts \ handles)
           \cup {FirstSome(<<alias_endpoint_host(h, t), h>>) :
                   h \in handles, t \in {"Doh", "Dot", "Doq"}}]

\* An encrypted route authenticates the name that was written, whatever address the
\* catalog, a hint, a bootstrap lookup or a reload gave it (config/endpoint.rs
\* canonical_name: a written hostname is never rewritten).
IdentityIsWritten ==
    config # NoConfig =>
      \A route \in routes :
        is_encrypted(route.transport) => route.authority \in Written[config]

\* Every UDP route has a direct TCP companion to the same server, address, port and
\* authority, so a truncated answer can be retried (upstream/pool.rs build).
TruncationCanBeRetried ==
    config # NoConfig =>
      \A u \in {x \in routes : x.transport = "Udp"} :
        \E t \in routes :
          /\ t.stream_companion /\ t.transport = "Tcp" /\ t.path = Direct
          /\ t.server = u.server /\ t.addr = u.addr /\ t.port = u.port
          /\ t.authority = u.authority /\ t.role = u.role

\* Until the first reload, the gateway `auto` adopted is never an independent authority,
\* on any route to its address, one written as a literal included (bin/egressdnsd.rs
\* expand_auto: a forwarder must not confirm an answer it may have copied).
GatewayIsNoAuthority ==
    (adopted # None /\ ~reloaded) =>
      \A route \in routes :
        route.authority = <<adopted, route.port>> => route.role = "LocalForwarder"

\* A process never starts with a literal upstream that is one of its own listeners,
\* directly or behind a wildcard (upstream/bootstrap.rs detect_cycles), whichever way
\* `auto` expanded.
StartsWithoutCycle ==
    (config # NoConfig /\ ~reloaded) =>
      \A route \in routes, l \in Conf[config].listen :
        (route.authority = <<route.addr, route.port>> /\ l.port = route.port)
        => ~(l.addr = route.addr \/ (l.addr = Unspecified /\ route.addr \in LocalAddrs))

\* The routes of the running configuration are sound however `auto`, the catalog, a hint, a
\* lookup or a reload made them: they authenticate the name that was written, can retry a
\* truncated answer, and neither lead back here nor let the gateway confirm itself.
RoutesAreSound ==
    IdentityIsWritten /\ TruncationCanBeRetried /\ GatewayIsNoAuthority /\ StartsWithoutCycle

\* When reloads stop, the local data served is in the end that of the running
\* configuration, although jobs of several reloads and the periodic task publish in any
\* order (tasks/maintenance.rs run_datasets reads the settings again every round).
DatasetsSettle ==
    \A local \in Locals :
      (local.interval /\ local.zones_ok /\ <>[](phase = "serving" /\ Conf[config].local = local))
        => <>[](datasets = local)

\* No route is offered on a path that cannot carry its transport: upstream/pool.rs:306,
\* "UDP, DoQ and DoH3 need datagrams, and no proxy implemented here carries them".
ProxiedRoutesCarry ==
    config # NoConfig =>
      \A route \in routes :
        route.transport \in {"Udp", "Doq", "Doh3"} => route.path = Direct

\* Between reloads everything in use is that of the running configuration:
\* config/reload.rs:3, "A configuration reload either takes effect completely or is
\* refused."
ReloadTakesEffect ==
    (phase = "serving" /\ jobs = {} /\ \A r \in Reloaders : reloader[r] = Idle)
      => /\ toggles = Switches(config)
         /\ tcp_cfg = Conf[config].tcp
         /\ datasets = Conf[config].local
=============================================================================
