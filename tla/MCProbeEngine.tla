--------------------------- MODULE MCProbeEngine ---------------------------
(***************************************************************************)
(* Two addresses of one prefix, one host and two workers.  `focus` says    *)
(* which part of what may happen a behaviour draws on:                     *)
(*   outage     connections fail until the subsystem counts as broken,     *)
(*              two at a time, jobs arrive when one is waited for, and     *)
(*              the process does not end;                                  *)
(*   reload     the pool is resized, one worker to two, and turned off;    *)
(*   refusal    answers are refused, certificates fail, QUIC is tried;     *)
(*   path       candidates are validated while the network changes.        *)
(***************************************************************************)
EXTENDS ProbeEngine, TLC
CONSTANTS x, y, h, p
VARIABLE focus
MCAddrs == {x, y}
MCPrefixOf == (x :> p) @@ (y :> p)
MCOffers == {[kind |-> "Baseline", host |-> h, addr |-> x, cloudflare |-> FALSE],
             [kind |-> "Observed", host |-> h, addr |-> x, cloudflare |-> TRUE],
             [kind |-> "Validate", host |-> h, addr |-> y, cloudflare |-> FALSE]}
One == [enabled |-> TRUE, concurrency |-> 0]
Two == [enabled |-> TRUE, concurrency |-> 2]
Off == [enabled |-> FALSE, concurrency |-> 2]
MCConfigs == {One, Two, Off}
Allowed ==
    [outage  |-> [kinds |-> {"Baseline"}, configs |-> {Two}, outcomes |-> {"accepted", "Connect"},
                  http3 |-> FALSE, refusals |-> FALSE, generation |-> 1],
     reload  |-> [kinds |-> {"Observed"}, configs |-> {One, Two, Off}, outcomes |-> {"accepted"},
                  http3 |-> FALSE, refusals |-> FALSE, generation |-> 1],
     refusal |-> [kinds |-> {"Observed"}, configs |-> {One},
                  outcomes |-> {"rejected", "Tls"}, http3 |-> TRUE, refusals |-> TRUE, generation |-> 1],
     path    |-> [kinds |-> {"Validate"}, configs |-> {One}, outcomes |-> {"accepted", "Timeout"},
                  http3 |-> FALSE, refusals |-> FALSE, generation |-> 2]]
MCInit == /\ focus \in DOMAIN Allowed /\ ProbeInit /\ prefixes = [v4 |-> {p}, v6 |-> {}]
          /\ pcfg \in Allowed[focus].configs
MCNext ==
    /\ ProbeNext /\ UNCHANGED focus
    /\ pcfg' \in Allowed[focus].configs
    /\ generation' <= Allowed[focus].generation
    /\ \A i \in DOMAIN jobs' : jobs'[i].kind \in Allowed[focus].kinds
    /\ \A w \in Workers : /\ worker'[w].outcome \in Allowed[focus].outcomes \cup {"none"}
                          /\ worker'[w].pc = "http3" => Allowed[focus].http3
    /\ refused' # {} => Allowed[focus].refusals
    /\ focus = "outage" => ~cancelled' /\ (jobs' # <<>> => engine'.pc = "recv")
MCSpec == MCInit /\ [][MCNext]_<<probeVars, focus>> /\ ProbeFairness
=============================================================================
