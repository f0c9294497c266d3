----------------------------- MODULE MCLifecycle -----------------------------
(***************************************************************************)
(* Three instances of Lifecycle side by side.  With focus "auto" or        *)
(* "named" the file is one of five upstream lists (with and without `auto`,*)
(* a handle, a profile, names with and without published addresses, an     *)
(* upstream that is a listener), does not load or needs a restart, and a   *)
(* single caller reloads.  With focus "reload" two callers reload at once  *)
(* and the file is one of two good ones.                                   *)
(***************************************************************************)
EXTENDS Lifecycle, TLC

CONSTANTS A1, A2, GW, Me, Wild, quad, q, dnsQuad, dotQuad, rev, dnsRev, px

VARIABLE focus

MCCatalog ==
    << [id |-> quad, aliases |-> {q}, addresses |-> <<A1>>, doh |-> dnsQuad, dot |-> dotQuad,
        doq |-> None],
       [id |-> rev, aliases |-> {}, addresses |-> <<>>, doh |-> dnsRev, dot |-> None,
        doq |-> None] >>
MCProfiles == [global |-> <<rev, quad>>]
MCIpAddrs == {A1, A2, GW, Me, Wild}
MCNames == {quad, q, dnsQuad, dotQuad, rev, dnsRev}
MCLocalAddrs == {Me}
MCStubAddrs == {}
Bare(addr) == [form |-> "bare", addr |-> addr, port |-> 53]
Uri(scheme, host, hints) ==
    [form |-> "uri", scheme |-> scheme, host |-> host, port |-> 0, hints |-> hints,
     params |-> FALSE]
MCChinaEntries == <<Bare(A2)>>
MCGlobalEntries == <<Uri("https", dnsRev, <<>>)>>
MCLookups == {[n \in MCNames |-> <<>>], [n \in MCNames |-> <<A2>>]}

Base == [valid |-> TRUE, listen |-> {[addr |-> Wild, port |-> 53]}, fixed |-> 1,
         upstreams |-> <<Bare(A1)>>, proxies |-> <<>>, probe |-> TRUE, prefetch |-> TRUE,
         cloudflare |-> TRUE, tcp |-> 1,
         local |-> [data |-> 1, zones_ok |-> TRUE, interval |-> TRUE]]
Proxied == <<[id |-> px, wellformed |-> TRUE]>>

Second == [Base EXCEPT !.probe = FALSE, !.local.data = 2]

MCConf ==
    [auto |-> [Base EXCEPT !.upstreams = <<[form |-> "auto"], [form |-> "word", word |-> q]>>],
     cycle |-> [Base EXCEPT !.upstreams = <<Bare(Me), Bare(A1)>>],
     profile |-> [Base EXCEPT !.upstreams = <<[form |-> "builtin", profile |-> "global"],
                                              Uri("https", dnsRev, <<A2>>)>>,
                              !.proxies = Proxied],
     literal |-> [Base EXCEPT !.upstreams = <<Bare(GW), [form |-> "auto"]>>,
                              !.local.interval = FALSE],
     named |-> [Base EXCEPT !.upstreams = <<Uri("tls", dnsQuad, <<>>), Bare(A2)>>,
                            !.proxies = Proxied],
     broken |-> [Base EXCEPT !.valid = FALSE, !.local.data = 3],
     base |-> Base, second |-> Second, moved |-> [Second EXCEPT !.fixed = 2]]
MCFiles == DOMAIN MCConf
MCReloaders == {"signal", "admin"}

FilesOf == [auto |-> {"auto", "literal", "cycle"},
            named |-> {"named", "profile", "moved", "broken"},
            reload |-> {"base", "second"}]
ReloadersOf == [auto |-> {"signal"}, named |-> {"signal"}, reload |-> MCReloaders]

MCInit == LifecycleInit /\ focus \in DOMAIN FilesOf /\ file \in FilesOf[focus]
MCNext ==
    /\ LifecycleNext
    /\ UNCHANGED focus
    /\ file' \in FilesOf[focus]
    /\ \A r \in MCReloaders \ ReloadersOf[focus] : reloader'[r] = Idle

allVars == <<lifeVars, focus>>
MCSpec == MCInit /\ [][MCNext]_allVars /\ LifecycleFairness
=============================================================================
