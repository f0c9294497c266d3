-------------------------- MODULE LifecycleProofs --------------------------
(***************************************************************************)
(* Proofs about Lifecycle, for any files, any catalog and any number of    *)
(* concurrent callers of reload: what a configuration that is refused can  *)
(* leave behind, and which settings survive every chain of reloads.        *)
(*                                                                         *)
(* A call of reload acts on the candidate it read and on the configuration *)
(* it compared it with, and both may be superseded before it stores.  So   *)
(* the invariant (CallInv) follows the candidate: from the moment it is    *)
(* loaded it is a file that loads, and from the moment it is accepted its  *)
(* fixed settings are those the process started with, whichever other      *)
(* call swapped in between.                                                *)
(***************************************************************************)
EXTENDS Lifecycle, SequenceFacts, TLAPS

CallSteps == {"idle", "loaded", "built", "swapped", "probes", "prefetch", "toggled"}
LoadableLocals == {Conf[f].local : f \in Loadable}

\* f needs no restart of a process that started with g.
SameFixed(f, g) == Conf[f].listen = Conf[g].listen /\ Conf[f].fixed = Conf[g].fixed

CallInv ==
    /\ reloader \in [Reloaders -> [pc : CallSteps, candidate : Files \union {NoConfig}]]
    /\ \A r \in Reloaders :
        /\ reloader[r].pc # "idle" => phase # "down" /\ reloader[r].candidate \in Loadable
        /\ reloader[r].pc = "built" => SameFixed(reloader[r].candidate, started)

RunInv ==
    /\ file \in Files
    /\ phase # "down" => config \in Loadable /\ SameFixed(config, started)
    /\ phase = "down" => config = NoConfig /\ jobs = {}

DataInv ==
    /\ datasets \in LoadableLocals \union {NoConfig}
    /\ jobs \subseteq LoadableLocals
    /\ task \in [pc : {"idle", "asleep", "building"}, local : LoadableLocals \union {NoConfig}]
    /\ task.pc # "idle" => phase = "serving"

LifeInv == CallInv /\ RunInv /\ DataInv

-----------------------------------------------------------------------------
LEMMA LoadableType ==
    /\ Loadable \subseteq Files
    /\ \A f \in Loadable : Conf[f].local \in LoadableLocals
BY DEF Loadable, LoadableLocals

\* A build publishes the settings it was given or leaves what was there.
LEMMA BuiltType ==
    ASSUME NEW local \in LoadableLocals \union {NoConfig},
           NEW before \in LoadableLocals \union {NoConfig}
    PROVE  Built(local, before) \in LoadableLocals \union {NoConfig}
BY DEF Built

LEMMA LifeInvInit == LifecycleInit => LifeInv
BY DEF LifecycleInit, LifeInv, CallInv, RunInv, DataInv, Idle, NoTask, CallSteps

LEMMA CallAdvances ==
    ASSUME NEW c \in [pc : CallSteps, candidate : Files \union {NoConfig}], NEW step
    PROVE  [c EXCEPT !.pc = step] = [pc |-> step, candidate |-> c.candidate]
OBVIOUS

\* The steps of a call of reload.
LEMMA ReloadKeeps ==
    ASSUME LifeInv, NEW r \in Reloaders, Reload(r)
    PROVE  LifeInv'
<1> USE DEF LifeInv
<1>0. reloader[r] \in [pc : CallSteps, candidate : Files \union {NoConfig}]
  BY DEF CallInv
<1>1. CASE ReloadLoad(r)
  <2>1. phase # "down" /\ file \in Loadable
        /\ reloader' = [reloader EXCEPT ![r] = [pc |-> "loaded", candidate |-> file]]
        /\ UNCHANGED <<file, phase, started, config, datasets, jobs, task>>
    BY <1>1 DEF ReloadLoad
  <2>2. CallInv'
    BY <2>1, LoadableType DEF CallInv, CallSteps, SameFixed
  <2> QED
    BY <2>1, <2>2 DEF RunInv, DataInv, SameFixed
<1>2. CASE ReloadRefused(r)
  <2>1. reloader' = [reloader EXCEPT ![r] = Idle]
        /\ UNCHANGED <<file, phase, started, config, datasets, jobs, task>>
    BY <1>2 DEF ReloadRefused, Refuse
  <2>2. CallInv'
    BY <2>1 DEF CallInv, CallSteps, SameFixed, Idle
  <2> QED
    BY <2>1, <2>2 DEF RunInv, DataInv, SameFixed
<1>3. CASE ReloadBuild(r)
  <2>1. reloader[r].pc = "loaded" /\ ~restart_required(config, reloader[r].candidate)
        /\ reloader' = [reloader EXCEPT ![r] = [pc |-> "built", candidate |-> reloader[r].candidate]]
        /\ UNCHANGED <<file, phase, started, config, datasets, jobs, task>>
    BY <1>0, CallAdvances, <1>3, Zenon DEF ReloadBuild
  <2>2. SameFixed(reloader[r].candidate, started)
    BY <2>1 DEF restart_required, SameFixed, CallInv, RunInv
  <2>3. CallInv'
    BY <1>0, <2>1, <2>2, Zenon DEF CallInv, CallSteps, SameFixed
  <2> QED
    BY <2>1, <2>3 DEF RunInv, DataInv, SameFixed
<1>4. CASE ReloadSwap(r)
  <2>1. reloader[r].pc = "built" /\ config' = reloader[r].candidate
        /\ reloader' = [reloader EXCEPT ![r] = [pc |-> "swapped", candidate |-> reloader[r].candidate]]
        /\ UNCHANGED <<file, phase, started, datasets, jobs, task>>
    BY <1>0, CallAdvances, <1>4, Zenon DEF ReloadSwap
  <2>2. CallInv'
    BY <1>0, <2>1 DEF CallInv, CallSteps, SameFixed
  <2>3. RunInv'
    BY <2>1 DEF CallInv, RunInv, SameFixed
  <2> QED
    BY <2>1, <2>2, <2>3 DEF DataInv
<1>5. ASSUME NEW from \in {"swapped", "probes", "prefetch"}, NEW to \in {"probes", "prefetch", "toggled"},
             NEW switch, ReloadSwitch(r, from, switch, to)
      PROVE  LifeInv'
  <2>1. reloader[r].pc = from /\ reloader[r].pc # "idle"
        /\ reloader' = [reloader EXCEPT ![r] = [pc |-> to, candidate |-> reloader[r].candidate]]
        /\ UNCHANGED <<file, phase, started, config, datasets, jobs, task>>
    BY <1>0, CallAdvances, <1>5, Zenon DEF ReloadSwitch
  <2>2. CallInv'
    BY <1>0, <2>1, Zenon DEF CallInv, CallSteps, SameFixed
  <2> QED
    BY <2>1, <2>2, Zenon DEF RunInv, DataInv, SameFixed
<1>6. CASE ReloadSpawn(r)
  <2>1. reloader[r].pc = "toggled" /\ jobs' = jobs \cup {Conf[reloader[r].candidate].local}
        /\ reloader' = [reloader EXCEPT ![r] = Idle]
        /\ UNCHANGED <<file, phase, started, config, datasets, task>>
    BY <1>6, Zenon DEF ReloadSpawn
  <2>2. CallInv'
    BY <2>1 DEF CallInv, CallSteps, SameFixed, Idle
  <2>3. phase # "down" /\ Conf[reloader[r].candidate].local \in LoadableLocals
    BY <2>1, LoadableType DEF CallInv
  <2> QED
    BY <2>1, <2>2, <2>3, Zenon DEF RunInv, DataInv, SameFixed
<1> QED
  BY <1>1, <1>2, <1>3, <1>4, <1>5, <1>6 DEF Reload

LEMMA LifeInvStep == LifeInv /\ [LifecycleNext]_lifeVars => LifeInv'
<1> SUFFICES ASSUME LifeInv, [LifecycleNext]_lifeVars
             PROVE  LifeInv'
  OBVIOUS
<1> USE DEF LifeInv
<1>1. ASSUME NEW f \in Files, EditFile(f)
      PROVE  LifeInv'
  BY <1>1 DEF EditFile, CallInv, RunInv, DataInv, SameFixed
<1>2. ASSUME NEW onUdp, NEW tcp, NEW looped, NEW region, NEW viaSeeds, NEW viaSystem,
             Start(onUdp, tcp, looped, region, viaSeeds, viaSystem)
      PROVE  LifeInv'
  <2>1. /\ phase = "down" /\ file \in Loadable /\ phase' = "serving"
        /\ started' = file /\ config' = file /\ datasets' = Built(Conf[file].local, NoConfig)
        /\ task' = [pc |-> "asleep", local |-> Conf[file].local]
        /\ UNCHANGED <<file, reloader, jobs>>
    BY <1>2, Zenon DEF Start
  <2>2. Conf[file].local \in LoadableLocals /\ datasets' \in LoadableLocals \union {NoConfig}
    BY <2>1, LoadableType, BuiltType
  <2>3. CallInv' /\ RunInv'
    BY <2>1, LoadableType, Zenon DEF CallInv, RunInv, SameFixed
  <2> QED
    BY <2>1, <2>2, <2>3 DEF DataInv
<1>3. ASSUME NEW local \in jobs, PublishJob(local)
      PROVE  LifeInv'
  <2>1. datasets' = Built(local, datasets) /\ jobs' = jobs \ {local}
        /\ UNCHANGED <<file, phase, started, config, reloader, task>>
    BY <1>3 DEF PublishJob
  <2>2. datasets' \in LoadableLocals \union {NoConfig}
    BY <2>1, BuiltType DEF DataInv
  <2> QED
    BY <2>1, <2>2 DEF CallInv, RunInv, DataInv, SameFixed
<1>4. CASE DatasetTick \/ DatasetBuild
  <2>1. /\ phase = "serving" /\ UNCHANGED <<file, phase, started, config, reloader, jobs>>
        /\ datasets' = datasets \/ datasets' = Built(task.local, datasets)
        /\ \/ task' = [task EXCEPT !.pc = "building"]
           \/ task' = [task EXCEPT !.local = Conf[config].local]
           \/ task' = [pc |-> "asleep", local |-> Conf[config].local]
    BY <1>4 DEF DatasetTick, DatasetBuild
  <2>2. Conf[config].local \in LoadableLocals
    BY <2>1, LoadableType DEF RunInv
  <2>3. datasets' \in LoadableLocals \union {NoConfig}
    BY <2>1, BuiltType DEF DataInv
  <2> QED
    BY <2>1, <2>2, <2>3 DEF CallInv, RunInv, DataInv, SameFixed
<1>5. CASE Shutdown
  BY <1>5, Zenon DEF Shutdown, NoTask, CallInv, RunInv, DataInv, SameFixed
<1>6. CASE Exit
  BY <1>6, Zenon DEF Exit, NoTask, Idle, CallInv, RunInv, DataInv, CallSteps
<1>7. CASE UNCHANGED lifeVars
  BY <1>7, Zenon DEF lifeVars, CallInv, RunInv, DataInv, SameFixed
<1> QED
  BY <1>1, <1>2, <1>3, <1>4, <1>5, <1>6, <1>7, ReloadKeeps DEF LifecycleNext

LEMMA LifeInvariant == LifecycleSpec => []LifeInv
BY LifeInvInit, LifeInvStep, PTL DEF LifecycleSpec

\* A configuration that does not load leaves no trace: whatever runs, and whatever a call of
\* `reload`, a dataset job or the periodic task is still to store, comes from a file that loads.
THEOREM RefusalLeavesNoTrace == LifecycleSpec => []RefusedLeavesNoTrace
<1>1. LifeInv => RefusedLeavesNoTrace
  BY Zenon DEF LifeInv, CallInv, RunInv, DataInv, RefusedLeavesNoTrace, LoadableLocals
<1> QED
  BY <1>1, LifeInvariant, PTL

\* The settings `restart_required` lists stay those of startup through any chain of reloads,
\* although a call compares its candidate with a configuration another call then replaces.
THEOREM FixedSettingsStay == LifecycleSpec => []FixedForLife
<1>1. LifeInv => FixedForLife
  BY DEF LifeInv, RunInv, SameFixed, FixedForLife
<1> QED
  BY <1>1, LifeInvariant, PTL

-----------------------------------------------------------------------------
(* From upstream entries to servers.                                       *)

\* A search ends at something that is there, unless nothing is.
LEMMA FirstSomeFound ==
    ASSUME NEW n \in Nat, NEW s, s = [i \in 1..n |-> s[i]], NEW k \in 1..n, s[k] # None
    PROVE  FirstSome(s) # None
<1> DEFINE there == {i \in DOMAIN s : s[i] # None}
<1>1. k \in there /\ there \in SUBSET Nat OBVIOUS
<1>2. FirstSome(s) = s[CHOOSE i \in there : \A j \in there : i <= j]
  BY <1>1, Zenon DEF FirstSome
<1>3. \A i \in there : s[i] # None OBVIOUS
<1> HIDE DEF there
<1>4. \E i \in there : \A j \in there : i <= j BY <1>1, LeastElement
<1>5. (CHOOSE i \in there : \A j \in there : i <= j) \in there BY <1>4, Zenon
<1> QED BY <1>2, <1>3, <1>5, Zenon

LEMMA FirstSomeThere ==
    ASSUME NEW n \in Nat, NEW s, s = [i \in 1..n |-> s[i]], FirstSome(s) # None
    PROVE  \E i \in 1..n : FirstSome(s) = s[i]
<1> DEFINE there == {i \in DOMAIN s : s[i] # None}
<1>1. there # {} BY Zenon DEF FirstSome
<1>2. FirstSome(s) = s[CHOOSE i \in there : \A j \in there : i <= j]
  BY <1>1, Zenon DEF FirstSome
<1>3. there \in SUBSET Nat /\ there \subseteq 1..n OBVIOUS
<1> HIDE DEF there
<1>4. \E i \in there : \A j \in there : i <= j BY <1>1, <1>3, LeastElement
<1>5. (CHOOSE i \in there : \A j \in there : i <= j) \in there BY <1>4, Zenon
<1> QED BY <1>2, <1>3, <1>5, Zenon

\* The first of two and of three.
LEMMA FirstOfTwo ==
    ASSUME NEW x, NEW y
    PROVE  x # None => FirstSome(<<x, y>>) = x
<1> SUFFICES ASSUME x # None PROVE FirstSome(<<x, y>>) = x OBVIOUS
<1> DEFINE s == <<x, y>>
           there == {i \in DOMAIN s : s[i] # None}
<1>1. s[1] = x /\ DOMAIN s = 1..2 OBVIOUS
<1>2. 1 \in there /\ there \subseteq 1..2 BY <1>1
<1>3. FirstSome(s) = s[CHOOSE i \in there : \A j \in there : i <= j]
  BY <1>2, Zenon DEF FirstSome
<1> HIDE DEF s, there
<1>4. \A j \in there : 1 <= j BY <1>2
<1>5. \A i \in there : (\A j \in there : i <= j) => i = 1 BY <1>2
<1>6. (CHOOSE i \in there : \A j \in there : i <= j) = 1 BY <1>2, <1>4, <1>5, Zenon
<1> QED BY <1>1, <1>3, <1>6, Zenon DEF s

LEMMA FirstOfThree ==
    ASSUME NEW x, NEW y, NEW z
    PROVE  /\ x # None => FirstSome(<<x, y, z>>) = x
           /\ FirstSome(<<x, y, z>>) \in {x, y, z}
           /\ {x, y, z} # {None} => FirstSome(<<x, y, z>>) # None
<1> DEFINE s == <<x, y, z>>
           there == {i \in DOMAIN s : s[i] # None}
<1>1. s[1] = x /\ s[2] = y /\ s[3] = z /\ DOMAIN s = 1..3 /\ s = [i \in 1..3 |-> s[i]] OBVIOUS
<1>2. there \subseteq 1..3 BY <1>1
<1>3. there # {} => FirstSome(s) = s[CHOOSE i \in there : \A j \in there : i <= j]
  BY Zenon DEF FirstSome
<1>4. x # None => 1 \in there BY <1>1
<1> HIDE DEF s, there
<1>5. x # None => (CHOOSE i \in there : \A j \in there : i <= j) = 1
  <2> SUFFICES ASSUME x # None PROVE (CHOOSE i \in there : \A j \in there : i <= j) = 1 OBVIOUS
  <2>1. 1 \in there BY <1>4
  <2>2. \A j \in there : 1 <= j BY <1>2
  <2>3. \A i \in there : (\A j \in there : i <= j) => i = 1 BY <1>2, <2>1
  <2> QED BY <2>1, <2>2, <2>3
<1>6. x # None => FirstSome(s) = x BY <1>1, <1>3, <1>4, <1>5, Zenon
<1>7. 3 \in Nat /\ 1..3 = {1, 2, 3} OBVIOUS
<1>8. FirstSome(s) # None => \E i \in 1..3 : FirstSome(s) = s[i] BY <1>1, <1>7, FirstSomeThere, Zenon
<1>9. ASSUME NEW i \in 1..3, s[i] # None PROVE FirstSome(s) # None
  BY <1>1, <1>7, <1>9, FirstSomeFound, Zenon
<1>10. \A i \in 1..3 : s[i] \in {x, y, z} BY <1>1, <1>7
<1>11. {x, y, z} # {None} => \E i \in 1..3 : s[i] # None BY <1>1, <1>7
<1>12. FirstSome(s) = None => None \in {x, y, z}
  <2>1. FirstSome(s) = None => s[1] = None BY <1>7, <1>9
  <2> QED BY <1>1, <2>1
<1> QED BY <1>6, <1>8, <1>9, <1>10, <1>11, <1>12 DEF s

\* The provider found is one of the catalog's, and goes by the key.
LEMMA ProviderFacts ==
    ASSUME NEW key, provider(key) # None
    PROVE  provider(key) \in Range(Catalog) /\ Answers(provider(key), key)
<1> DEFINE s == [i \in DOMAIN Catalog |-> IF Answers(Catalog[i], key) THEN Catalog[i] ELSE None]
           n == Len(Catalog)
<1>1. n \in Nat /\ DOMAIN Catalog = 1..n BY CatalogAssumption
<1>2. s = [i \in 1..n |-> s[i]] BY <1>1
<1>3. provider(key) = FirstSome(s) BY DEF provider
<1>4. \A i \in 1..n : s[i] = IF Answers(Catalog[i], key) THEN Catalog[i] ELSE None BY <1>1
<1> HIDE DEF s, n
<1>5. PICK i \in 1..n : provider(key) = s[i] BY <1>1, <1>2, <1>3, FirstSomeThere, Zenon
<1>6. provider(key) = Catalog[i] /\ Answers(Catalog[i], key) BY <1>4, <1>5
<1> QED BY <1>1, <1>5, <1>6 DEF Range

\* Every provider has a name to authenticate, and each of its own names is what some
\* transport's handle stands for.
LEMMA HandleNames ==
    ASSUME NEW key, provider(key) # None
    PROVE  /\ \A t \in {"Doh", "Dot", "Doq"} :
                /\ alias_endpoint_host(key, t) # None
                /\ alias_endpoint_host(key, t) \in endpoint_hosts(provider(key))
           /\ \A h \in endpoint_hosts(provider(key)) :
                \E t \in {"Doh", "Dot", "Doq"} : alias_endpoint_host(key, t) = h
<1> DEFINE p == provider(key)
<1>1. /\ alias_endpoint_host(key, "Doh") = FirstSome(<<p.doh, p.dot, p.doq>>)
      /\ alias_endpoint_host(key, "Dot") = FirstSome(<<p.dot, p.doh, p.doq>>)
      /\ alias_endpoint_host(key, "Doq") = FirstSome(<<p.doq, p.dot, p.doh>>)
  BY DEF alias_endpoint_host
<1>2. endpoint_hosts(p) # {} /\ None \notin endpoint_hosts(p)
      /\ endpoint_hosts(p) = {p.doh, p.dot, p.doq} \ {None}
  BY ProviderFacts, CatalogAssumption, Zenon DEF endpoint_hosts
<1> HIDE DEF p
<1>3. {p.doh, p.dot, p.doq} # {None} BY <1>2
<1>4. /\ {p.dot, p.doh, p.doq} = {p.doh, p.dot, p.doq}
      /\ {p.doq, p.dot, p.doh} = {p.doh, p.dot, p.doq}
  OBVIOUS
<1> DEFINE a == alias_endpoint_host(key, "Doh")
           b == alias_endpoint_host(key, "Dot")
           c == alias_endpoint_host(key, "Doq")
<1>5. a # None /\ a \in {p.doh, p.dot, p.doq} /\ (p.doh # None => a = p.doh)
  BY <1>1, <1>3, FirstOfThree
<1>6. b # None /\ b \in {p.doh, p.dot, p.doq} /\ (p.dot # None => b = p.dot)
  BY <1>1, <1>3, <1>4, FirstOfThree
<1>7. c # None /\ c \in {p.doh, p.dot, p.doq} /\ (p.doq # None => c = p.doq)
  BY <1>1, <1>3, <1>4, FirstOfThree
<1> HIDE DEF a, b, c
<1>8. \A h \in endpoint_hosts(p) : h = a \/ h = b \/ h = c BY <1>2, <1>5, <1>6, <1>7
<1>9. {a, b, c} \subseteq endpoint_hosts(p) BY <1>2, <1>5, <1>6, <1>7
<1> QED BY <1>5, <1>6, <1>7, <1>8, <1>9 DEF a, b, c, p

\* The hosts an entry can lead to.
LeadsTo(e, host) ==
    /\ e.form = "bare" => host = e.addr
    /\ e.form = "word" => provider(e.word) # None /\ host = alias_endpoint_host(e.word, "Doh")
    /\ e.form = "uri" => \E t \in {"Doh", "Dot", "Doq"} : host = UriHost(e, t)

IsCandidate(c, e) ==
    /\ c = Candidate(c.transport, c.host, c.port, c.hints)
    /\ c.port \in Nat /\ c.hints \in Seq(IpAddrs)
    /\ c.host \in Names \cup IpAddrs /\ LeadsTo(e, c.host)
    /\ e.form = "bare" => ~is_encrypted(c.transport)

LEMMA UriHostNamed ==
    ASSUME NEW e, IsEntry(e), e.form = "uri", NEW t \in {"Doh", "Dot", "Doq"}
    PROVE  UriHost(e, t) \in Names \cup IpAddrs
<1>1. e.host \in Names \cup IpAddrs BY DEF IsEntry
<1>2. CASE e.host \in IpAddrs BY <1>2 DEF UriHost
<1>3. CASE e.host \notin IpAddrs /\ ~is_bare_alias(e.host) BY <1>1, <1>3 DEF UriHost
<1>4. CASE e.host \notin IpAddrs /\ is_bare_alias(e.host)
  <2>1. provider(e.host) # None BY <1>4 DEF is_bare_alias
  <2>2. alias_endpoint_host(e.host, t) # None
        /\ alias_endpoint_host(e.host, t) \in endpoint_hosts(provider(e.host))
    BY <2>1, HandleNames
  <2>3. endpoint_hosts(provider(e.host)) \subseteq Names
    BY <2>1, ProviderFacts, CatalogAssumption
  <2>4. UriHost(e, t) = FirstSome(<<alias_endpoint_host(e.host, t), e.host>>)
    BY <1>4, Zenon DEF UriHost
  <2>5. UriHost(e, t) = alias_endpoint_host(e.host, t) BY <2>2, <2>4, FirstOfTwo
  <2> QED BY <2>2, <2>3, <2>5
<1> QED BY <1>2, <1>3, <1>4

\* The members of a list of one or two.
LEMMA ListOfOne ==
    ASSUME NEW x
    PROVE  Range(<<x>>) = {x} /\ <<x>> \in Seq(Range(<<x>>)) /\ <<x>> # <<>>
<1>1. DOMAIN <<x>> = {1} /\ <<x>>[1] = x OBVIOUS
<1>2. Range(<<x>>) = {x} BY <1>1 DEF Range
<1> QED BY <1>2

LEMMA ListOfTwo ==
    ASSUME NEW x, NEW y
    PROVE  Range(<<x, y>>) = {x, y} /\ <<x, y>> \in Seq(Range(<<x, y>>)) /\ <<x, y>> # <<>>
<1>1. DOMAIN <<x, y>> = {1, 2} /\ <<x, y>>[1] = x /\ <<x, y>>[2] = y OBVIOUS
<1>2. Range(<<x, y>>) = {x, y} BY <1>1 DEF Range
<1> QED BY <1>2

LEMMA CandidateFields ==
    ASSUME NEW transport, NEW host, NEW port, NEW hints
    PROVE  LET c == Candidate(transport, host, port, hints)
           IN  /\ c.transport = transport /\ c.host = host /\ c.port = port /\ c.hints = hints
               /\ c = Candidate(c.transport, c.host, c.port, c.hints)
BY DEF Candidate

\* What an accepted entry parses to: some candidates, all for a host it leads to.
LEMMA ParseFacts ==
    ASSUME NEW e, IsEntry(e), e.form \in {"bare", "word", "uri"}, parse(e).ok
    PROVE  /\ parse(e).out \in Seq(Range(parse(e).out)) /\ Range(parse(e).out) # {}
           /\ \A c \in Range(parse(e).out) : IsCandidate(c, e)
<1> DEFINE Good(out) == /\ out \in Seq(Range(out)) /\ Range(out) # {}
                        /\ \A c \in Range(out) : IsCandidate(c, e)
<1>0. SUFFICES Good(parse(e).out) OBVIOUS
<1>a. /\ ~Err.ok /\ \A s : Ok(s).ok /\ Ok(s).out = s
      /\ <<>> \in Seq(IpAddrs)
  BY DEF Err, Ok
<1>1. ASSUME NEW transport, NEW host, NEW port \in Nat, NEW hints \in Seq(IpAddrs),
             host \in Names \cup IpAddrs, LeadsTo(e, host),
             e.form = "bare" => ~is_encrypted(transport)
      PROVE  IsCandidate(Candidate(transport, host, port, hints), e)
  BY <1>1, CandidateFields DEF IsCandidate
<1>2. ASSUME NEW x, IsCandidate(x, e) PROVE Good(<<x>>) BY <1>2, ListOfOne
<1>3. ASSUME NEW x, NEW y, IsCandidate(x, e), IsCandidate(y, e) PROVE Good(<<x, y>>)
  BY <1>3, ListOfTwo
<1>4. ASSUME NEW host, NEW port \in Nat, NEW hints \in Seq(IpAddrs),
             host \in Names \cup IpAddrs, LeadsTo(e, host), e.form # "bare"
      PROVE  Good(doh_candidates(host, port, hints))
  <2>1. /\ IsCandidate(Candidate("Doh3", host, port, hints), e)
        /\ IsCandidate(Candidate("Doh2", host, port, hints), e)
    BY <1>1, <1>4, Zenon
  <2> HIDE DEF Good
  <2> QED BY <1>3, <2>1 DEF doh_candidates
<1> HIDE DEF Good
<1>5. CASE e.form = "bare"
  <2>1. parse(e) = Ok(<<Candidate("Udp", e.addr, e.port, <<>>)>>) BY <1>5, Zenon DEF parse
  <2>2. e.addr \in IpAddrs /\ e.port \in Nat /\ LeadsTo(e, e.addr) /\ ~is_encrypted("Udp")
    BY <1>5 DEF IsEntry, LeadsTo, is_encrypted
  <2>3. IsCandidate(Candidate("Udp", e.addr, e.port, <<>>), e) BY <1>1, <1>a, <2>2, Zenon
  <2> QED BY <1>2, <1>a, <2>1, <2>3
<1>6. CASE e.form = "word"
  <2> DEFINE p == provider(e.word)
             host == FirstSome(<<alias_endpoint_host(e.word, "Doh"), p.id>>)
  <2>1. parse(e) = IF p = None THEN Err ELSE Ok(doh_candidates(host, 443, <<>>))
    BY <1>6 DEF parse
  <2>2. p # None BY <1>a, <2>1
  <2>3. /\ alias_endpoint_host(e.word, "Doh") # None
        /\ alias_endpoint_host(e.word, "Doh") \in endpoint_hosts(p)
        /\ endpoint_hosts(p) \subseteq Names
    BY <2>2, HandleNames, ProviderFacts, CatalogAssumption
  <2>4. host = alias_endpoint_host(e.word, "Doh") BY <2>3, FirstOfTwo
  <2> HIDE DEF host
  <2>5. LeadsTo(e, host) /\ host \in Names BY <1>6, <2>2, <2>3, <2>4 DEF LeadsTo
  <2>6. 443 \in Nat /\ host \in Names \cup IpAddrs BY <2>5
  <2>7. ASSUME NEW n \in Nat PROVE Good(doh_candidates(host, n, <<>>))
    BY <1>4, <1>6, <1>a, <2>5, <2>6, Zenon
  <2> HIDE DEF p
  <2>8. parse(e) = Ok(doh_candidates(host, 443, <<>>)) BY <2>1, <2>2
  <2>9. Good(doh_candidates(host, 443, <<>>)) BY <2>6, <2>7
  <2> QED BY <1>a, <2>8, <2>9
<1>7. CASE e.form = "uri"
  <2> DEFINE refused == e.params \/ \E i \in DOMAIN e.hints : e.hints[i] \notin IpAddrs
             h(t) == UriHost(e, t)
  <2>1. parse(e) =
          IF refused THEN Err
          ELSE CASE e.scheme = "https" -> Ok(doh_candidates(h("Doh"), PortOr(e.port, 443), e.hints))
                 [] e.scheme = "tls" ->
                      Ok(<<Candidate("Dot", h("Dot"), PortOr(e.port, 853), e.hints)>>)
                 [] e.scheme = "quic" ->
                      Ok(<<Candidate("Doq", h("Doq"), PortOr(e.port, 853), e.hints)>>)
                 [] e.scheme \in {"udp", "dns"} ->
                      Ok(<<Candidate("Udp", h("Doh"), PortOr(e.port, 53), e.hints)>>)
                 [] e.scheme = "tcp" ->
                      Ok(<<Candidate("Tcp", h("Doh"), PortOr(e.port, 53), e.hints)>>)
                 [] OTHER -> Err
    BY <1>7 DEF parse
  <2>2. ~refused BY <1>a, <2>1
  <2>3. e.hints \in Seq(IpAddrs)
    <3>1. e.hints \in Seq(Range(e.hints)) BY <1>7 DEF IsEntry
    <3>2. Range(e.hints) \subseteq IpAddrs BY <2>2 DEF Range
    <3> QED BY <3>1, <3>2
  <2>4. ASSUME NEW n \in Nat PROVE PortOr(e.port, n) \in Nat BY <1>7 DEF IsEntry, PortOr
  <2>5. ASSUME NEW t \in {"Doh", "Dot", "Doq"}
        PROVE  h(t) \in Names \cup IpAddrs /\ LeadsTo(e, h(t))
    BY <1>7, UriHostNamed DEF LeadsTo
  <2>6. ASSUME NEW transport, NEW t \in {"Doh", "Dot", "Doq"}, NEW n \in Nat
        PROVE  Good(<<Candidate(transport, h(t), PortOr(e.port, n), e.hints)>>)
    BY <1>1, <1>2, <1>7, <2>3, <2>4, <2>5, ZenonT(30)
  <2>7. Good(doh_candidates(h("Doh"), PortOr(e.port, 443), e.hints))
    BY <1>4, <1>7, <2>3, <2>4, <2>5
  <2> HIDE DEF h, refused
  <2> QED BY <1>a, <2>1, <2>2, <2>6, <2>7
<1> QED BY <1>5, <1>6, <1>7

\* What a list of entries stands for.
Expanded(us) == UNION {Range(Expansion(us[i])) : i \in DOMAIN us}

IsPlain(e) == IsEntry(e) /\ e.form \in {"bare", "word", "uri"}

LEMMA RangeOf == ASSUME NEW n \in Nat, NEW s, s = [i \in 1..n |-> s[i]]
                 PROVE  Range(s) = {s[i] : i \in 1..n} /\ s \in Seq(Range(s))
<1>1. DOMAIN s = 1..n OBVIOUS
<1>2. Range(s) = {s[i] : i \in 1..n} BY <1>1 DEF Range
<1>3. \A i \in 1..n : s[i] \in Range(s) BY <1>2
<1>4. s \in [1..n -> Range(s)]
  <2> HIDE DEF Range
  <2> QED BY <1>3
<1> QED BY <1>2, <1>4

LEMMA RangeOfList == ASSUME NEW s, s \in Seq(Range(s))
                     PROVE  /\ Len(s) \in Nat /\ DOMAIN s = 1..Len(s) /\ s = [i \in 1..Len(s) |-> s[i]]
                            /\ Range(s) = {s[i] : i \in 1..Len(s)}
                            /\ s = <<>> <=> Range(s) = {}
<1> DEFINE R == Range(s)
<1>1. s \in Seq(R) OBVIOUS
<1>2. R = {s[i] : i \in DOMAIN s} BY DEF Range
<1> HIDE DEF R
<1>3. Len(s) \in Nat /\ DOMAIN s = 1..Len(s) /\ s = [i \in 1..Len(s) |-> s[i]] BY <1>1
<1>4. s = <<>> <=> DOMAIN s = {} BY <1>1
<1> QED BY <1>2, <1>3, <1>4 DEF R

LEMMA ListsJoin ==
    ASSUME NEW p, NEW q, p \in Seq(Range(p)), q \in Seq(Range(q))
    PROVE  p \o q \in Seq(Range(p \o q)) /\ Range(p \o q) = Range(p) \cup Range(q)
<1> DEFINE U == Range(p) \cup Range(q)
<1>1. p \in Seq(U) /\ q \in Seq(U)
  <2>1. Range(p) \subseteq U /\ Range(q) \subseteq U OBVIOUS
  <2> HIDE DEF U
  <2> QED BY <2>1
<1> HIDE DEF U
<1>2. p \o q \in Seq(U) BY <1>1
<1>3. Range(p \o q) = Range(p) \cup Range(q) BY <1>1, RangeJoined
<1> QED BY <1>2, <1>3 DEF U

LEMMA EmptyList == <<>> \in Seq(Range(<<>>)) /\ Range(<<>>) = {}
BY DEF Range

\* What a provider contributes to a profile.
LEMMA EntriesFacts ==
    ASSUME NEW p \in Range(Catalog)
    PROVE  /\ EntriesOf(p) \in Seq(Range(EntriesOf(p)))
           /\ \A e \in Range(EntriesOf(p)) : IsPlain(e)
<1> DEFINE seed == [form |-> "bare", addr |-> Head(p.addresses), port |-> 53]
           uri(scheme, host) == [form |-> "uri", scheme |-> scheme, host |-> host, port |-> 0,
                                 hints |-> <<>>, params |-> FALSE]
           a == IF p.addresses = <<>> THEN <<>> ELSE <<seed>>
           b == IF p.doh # None THEN <<uri("https", p.doh)>>
                ELSE IF p.dot # None THEN <<uri("tls", p.dot)>> ELSE <<>>
           Good(l) == l \in Seq(Range(l)) /\ \A e \in Range(l) : IsPlain(e)
<1>1. Good(<<>>) BY EmptyList
<1>2. p.addresses # <<>> => IsPlain(seed)
  <2> SUFFICES ASSUME p.addresses # <<>> PROVE IsPlain(seed) OBVIOUS
  <2>1. p.addresses \in Seq(IpAddrs) BY CatalogAssumption
  <2>2. Head(p.addresses) \in IpAddrs BY <2>1
  <2> QED BY <2>2 DEF IsPlain, IsEntry
<1>3. ASSUME NEW scheme, NEW host \in Names PROVE IsPlain(uri(scheme, host))
  BY EmptyList DEF IsPlain, IsEntry
<1>4. (p.doh # None => p.doh \in Names) /\ (p.dot # None => p.dot \in Names)
  BY CatalogAssumption DEF endpoint_hosts
<1>5. ASSUME NEW e, IsPlain(e) PROVE Good(<<e>>) BY <1>5, ListOfOne
<1> HIDE DEF seed, uri, Good
<1>6. Good(a) BY <1>1, <1>2, <1>5
<1>7. Good(b) BY <1>1, <1>3, <1>4, <1>5
<1>8. EntriesOf(p) = a \o b BY Zenon DEF EntriesOf, seed, uri
<1> HIDE DEF a, b
<1> QED BY <1>6, <1>7, <1>8, ListsJoin DEF Good

\* An entry of a list whose profiles are known stands for entries that can be parsed.
LEMMA ExpansionFacts ==
    ASSUME NEW u, IsEntry(u), u.form = "builtin" => u.profile \in DOMAIN Profiles
    PROVE  /\ Expansion(u) \in Seq(Range(Expansion(u)))
           /\ \A e \in Range(Expansion(u)) : IsPlain(e)
           /\ u.form \notin {"auto", "builtin"} => Range(Expansion(u)) = {u}
<1>1. CASE u.form = "auto"
  <2>1. Expansion(u) = auto_expand(None, "Global") BY <1>1, Zenon DEF Expansion
  <2>2. auto_expand(None, "Global") = <<>> \o GlobalEntries BY DEF auto_expand
  <2>3. /\ GlobalEntries \in Seq(Range(GlobalEntries))
        /\ \A e \in Range(GlobalEntries) : IsEntry(e) /\ e.form \in {"bare", "uri"}
    BY RegionsAssumption
  <2>4. <<>> \o GlobalEntries = GlobalEntries BY <2>3
  <2> QED BY <1>1, <2>1, <2>2, <2>3, <2>4 DEF IsPlain
<1>2. CASE u.form = "builtin"
  <2> DEFINE members == Profiles[u.profile]
             n == Len(members)
             lists == [i \in DOMAIN members |-> IF provider(members[i]) = None THEN <<>>
                                                ELSE EntriesOf(provider(members[i]))]
  <2>1. members \in Seq(Range(members)) BY <1>2, CatalogAssumption
  <2>2. n \in Nat /\ DOMAIN members = 1..n BY <2>1, RangeOfList
  <2>3. Expansion(u) = Joined(lists) BY <1>2, Zenon DEF Expansion, builtin_expand
  <2>4. ASSUME NEW i \in 1..n
        PROVE  lists[i] \in Seq(Range(lists[i])) /\ \A e \in Range(lists[i]) : IsPlain(e)
    <3>1. lists[i] = IF provider(members[i]) = None THEN <<>> ELSE EntriesOf(provider(members[i]))
      BY <2>2
    <3> HIDE DEF lists
    <3> QED BY <3>1, ProviderFacts, EntriesFacts, EmptyList, Zenon
  <2>5. lists = [i \in 1..n |-> lists[i]] BY <2>2
  <2> HIDE DEF lists, n
  <2>6. /\ Joined(lists) \in Seq(Range(Joined(lists)))
        /\ Range(Joined(lists)) = UNION {Range(lists[i]) : i \in 1..n}
    BY <2>2, <2>4, <2>5, JoinedLists, Zenon
  <2> QED BY <1>2, <2>3, <2>4, <2>6
<1>3. CASE u.form \notin {"auto", "builtin"}
  <2>1. Expansion(u) = <<u>> BY <1>3, Zenon DEF Expansion
  <2> QED BY <1>3, <2>1, ListOfOne DEF IsPlain, IsEntry
<1> QED BY <1>1, <1>2, <1>3

\* What a server may be.
IsServer(s) ==
    /\ s = [name |-> s.name, transport |-> s.transport, port |-> s.port,
            server_name |-> s.server_name, addresses |-> s.addresses, role |-> s.role]
    /\ s.port \in Nat /\ s.addresses \in Seq(IpAddrs)
    /\ s.server_name \in Names \cup {None}

LEMMA ServerFacts ==
    ASSUME NEW e, NEW c, IsCandidate(c, e), NEW i
    PROVE  LET s == ServerOf(i, c)
           IN  /\ IsServer(s) /\ s.transport = c.transport
               /\ s.server_name = IF c.host \in IpAddrs THEN None ELSE c.host
               /\ c.host \in IpAddrs => s.addresses = <<c.host>>
<1> DEFINE s == ServerOf(i, c)
<1>1. /\ s.transport = c.transport /\ s.port = c.port
      /\ s.server_name = IF c.host \in IpAddrs THEN None ELSE c.host
      /\ s.addresses = IF c.host \in IpAddrs THEN <<c.host>>
                       ELSE IF c.hints # <<>> THEN c.hints ELSE bootstrap_addresses(c.host)
      /\ s = [name |-> s.name, transport |-> s.transport, port |-> s.port,
              server_name |-> s.server_name, addresses |-> s.addresses, role |-> s.role]
  BY DEF ServerOf
<1>2. c.port \in Nat /\ c.hints \in Seq(IpAddrs) /\ c.host \in Names \cup IpAddrs
  BY DEF IsCandidate
<1>3. bootstrap_addresses(c.host) \in Seq(IpAddrs)
  BY ProviderFacts, CatalogAssumption DEF bootstrap_addresses
<1> HIDE DEF s
<1>4. s.addresses \in Seq(IpAddrs) BY <1>1, <1>2, <1>3
<1> QED BY <1>1, <1>2, <1>4, ZenonT(30) DEF IsServer, s

\* What makes a list of entries acceptable.
ProfilesKnown(us) == \A u \in Range(us) : u.form = "builtin" => u.profile \in DOMAIN Profiles
Parses(e) ==
    /\ parse(e).ok
    /\ \A c \in Range(parse(e).out) : is_encrypted(c.transport) => c.host \notin IpAddrs

\* A server, the entry and the candidate it was made of.
MadeFrom(s, e) == \E i, c : c \in Range(parse(e).out) /\ s = ServerOf(i, c)

LEMMA ExpandedList ==
    ASSUME NEW us, us \in Seq(Range(us)), \A u \in Range(us) : IsEntry(u), ProfilesKnown(us)
    PROVE  LET expanded == Joined([i \in DOMAIN us |-> Expansion(us[i])])
           IN  /\ expanded \in Seq(Range(expanded)) /\ Range(expanded) = Expanded(us)
               /\ \A e \in Expanded(us) : IsPlain(e)
<1> DEFINE n == Len(us)
           lists == [i \in DOMAIN us |-> Expansion(us[i])]
<1>1. n \in Nat /\ DOMAIN us = 1..n /\ Range(us) = {us[i] : i \in 1..n} BY RangeOfList
<1>2. lists = [i \in 1..n |-> lists[i]] /\ \A i \in 1..n : lists[i] = Expansion(us[i]) BY <1>1
<1> HIDE DEF lists, n
<1>3. \A i \in 1..n : us[i] \in Range(us) BY <1>1
<1>4. \A i \in 1..n : /\ lists[i] \in Seq(Range(lists[i]))
                      /\ \A e \in Range(lists[i]) : IsPlain(e)
  BY <1>2, <1>3, ExpansionFacts DEF ProfilesKnown
<1>5. /\ Joined(lists) \in Seq(Range(Joined(lists)))
      /\ Range(Joined(lists)) = UNION {Range(lists[i]) : i \in 1..n}
  BY <1>1, <1>2, <1>4, JoinedLists, Zenon
<1>6. Expanded(us) = UNION {Range(lists[i]) : i \in 1..n} BY <1>1, <1>2 DEF Expanded
<1> QED BY <1>4, <1>5, <1>6, Zenon DEF lists

LEMMA ServersList ==
    ASSUME NEW expanded, expanded \in Seq(Range(expanded)), \A e \in Range(expanded) : IsPlain(e) /\ parse(e).ok
    PROVE  LET servers == Joined([i \in DOMAIN expanded |-> ServersOf(i, parse(expanded[i]).out)])
           IN  /\ servers \in Seq(Range(servers))
               /\ \A s \in Range(servers) : \E e \in Range(expanded) : MadeFrom(s, e)
               /\ \A e \in Range(expanded) : \A c \in Range(parse(e).out) :
                     \E i : ServerOf(i, c) \in Range(servers)
<1> DEFINE n == Len(expanded)
           lists == [i \in DOMAIN expanded |-> ServersOf(i, parse(expanded[i]).out)]
<1>1. n \in Nat /\ DOMAIN expanded = 1..n /\ Range(expanded) = {expanded[i] : i \in 1..n}
  BY RangeOfList
<1>2. lists = [i \in 1..n |-> lists[i]]
      /\ \A i \in 1..n : lists[i] = ServersOf(i, parse(expanded[i]).out)
  BY <1>1
<1> HIDE DEF lists, n
<1>3. \A i \in 1..n : expanded[i] \in Range(expanded) BY <1>1
<1>4. ASSUME NEW i \in 1..n
      PROVE  /\ lists[i] \in Seq(Range(lists[i]))
             /\ Range(lists[i]) = {ServerOf(i, c) : c \in Range(parse(expanded[i]).out)}
  <2> DEFINE out == parse(expanded[i]).out
             m == Len(out)
             l == lists[i]
  <2>1. out \in Seq(Range(out)) BY <1>3, ParseFacts DEF IsPlain
  <2> HIDE DEF out
  <2>2. m \in Nat /\ DOMAIN out = 1..m /\ Range(out) = {out[k] : k \in 1..m} BY <2>1, RangeOfList
  <2>3. l = [k \in 1..m |-> ServerOf(i, out[k])] BY <1>2, <2>2 DEF ServersOf, out
  <2>4. l = [k \in 1..m |-> l[k]] /\ \A k \in 1..m : l[k] = ServerOf(i, out[k]) BY <2>3
  <2> HIDE DEF m, l
  <2>5. Range(l) = {l[k] : k \in 1..m} /\ l \in Seq(Range(l)) BY <2>2, <2>4, RangeOf, Zenon
  <2>6. Range(l) = {ServerOf(i, c) : c \in Range(out)}
    <3>1. ASSUME NEW s \in Range(l) PROVE \E c \in Range(out) : s = ServerOf(i, c)
      BY <2>2, <2>4, <2>5
    <3>2. ASSUME NEW c \in Range(out) PROVE ServerOf(i, c) \in Range(l)
      BY <2>2, <2>4, <2>5
    <3> QED BY <3>1, <3>2
  <2> QED BY <2>5, <2>6, Zenon DEF l, out
<1>5. /\ Joined(lists) \in Seq(Range(Joined(lists)))
      /\ Range(Joined(lists)) = UNION {Range(lists[i]) : i \in 1..n}
  BY <1>1, <1>2, <1>4, JoinedLists, Zenon
<1>6. ASSUME NEW s \in Range(Joined(lists)) PROVE \E e \in Range(expanded) : MadeFrom(s, e)
  <2>1. PICK i \in 1..n : s \in Range(lists[i]) BY <1>5
  <2>2. PICK c \in Range(parse(expanded[i]).out) : s = ServerOf(i, c) BY <1>4, <2>1, Zenon
  <2> QED BY <1>3, <2>2 DEF MadeFrom
<1>7. ASSUME NEW e \in Range(expanded), NEW c \in Range(parse(e).out)
      PROVE  \E i : ServerOf(i, c) \in Range(Joined(lists))
  <2>1. PICK i \in 1..n : e = expanded[i] BY <1>1
  <2>2. ServerOf(i, c) \in Range(lists[i]) BY <1>4, <2>1, Zenon
  <2> QED BY <1>5, <2>2
<1> QED BY <1>5, <1>6, <1>7, Zenon DEF lists

\* When a list of entries is accepted, and what its servers are made of.
LEMMA DesugarFacts ==
    ASSUME NEW us, us \in Seq(Range(us)), \A u \in Range(us) : IsEntry(u)
    PROVE  /\ desugar(us).ok <=> /\ ProfilesKnown(us)
                                 /\ \A e \in Expanded(us) : Parses(e)
                                 /\ Expanded(us) # {}
           /\ desugar(us).ok =>
                /\ desugar(us).out \in Seq(Range(desugar(us).out))
                /\ \A s \in Range(desugar(us).out) : \E e \in Expanded(us) : MadeFrom(s, e)
<1> DEFINE expanded == Joined([i \in DOMAIN us |-> Expansion(us[i])])
           servers == Joined([i \in DOMAIN expanded |-> ServersOf(i, parse(expanded[i]).out)])
           strange == \E i \in DOMAIN us : us[i].form = "builtin" /\ us[i].profile \notin DOMAIN Profiles
           unread == \E i \in DOMAIN expanded : ~parse(expanded[i]).ok
           nameless == \E s \in Range(servers) : is_encrypted(s.transport) /\ s.server_name = None
<1>1. desugar(us) = IF strange \/ unread \/ nameless \/ servers = <<>> THEN Err ELSE Ok(servers)
  BY Zenon DEF desugar
<1>2. ~Err.ok /\ Ok(servers).ok /\ Ok(servers).out = servers
  <2> HIDE DEF servers
  <2> QED BY DEF Err, Ok
<1>3. strange <=> ~ProfilesKnown(us)
  <2>1. Range(us) = {us[i] : i \in DOMAIN us} BY DEF Range
  <2> QED BY <2>1 DEF ProfilesKnown
<1>4. CASE strange
  <2> HIDE DEF strange, unread, nameless, servers
  <2> QED BY <1>1, <1>2, <1>3, <1>4
<1>5. CASE ~strange
  <2>1. /\ expanded \in Seq(Range(expanded)) /\ Range(expanded) = Expanded(us)
        /\ \A e \in Expanded(us) : IsPlain(e)
    BY <1>3, <1>5, ExpandedList
  <2>2. Range(expanded) = {expanded[i] : i \in DOMAIN expanded} BY DEF Range
  <2> HIDE DEF expanded
  <2>3. unread <=> \E e \in Expanded(us) : ~parse(e).ok BY <2>1, <2>2, Zenon
  <2>4. CASE unread
    <3> HIDE DEF strange, unread, nameless, servers
    <3> QED BY <1>1, <1>2, <2>3, <2>4, Zenon DEF Parses
  <2>5. CASE ~unread
    <3>1. /\ servers \in Seq(Range(servers))
          /\ \A s \in Range(servers) : \E e \in Expanded(us) : MadeFrom(s, e)
          /\ \A e \in Expanded(us) : \A c \in Range(parse(e).out) :
                     \E i : ServerOf(i, c) \in Range(servers)
      BY <2>1, <2>3, <2>5, ServersList, Zenon
    <3> HIDE DEF servers
    <3>2. \A e \in Expanded(us) :
            /\ parse(e).ok /\ Range(parse(e).out) # {}
            /\ \A c \in Range(parse(e).out) : IsCandidate(c, e)
      BY <2>1, <2>3, <2>5, ParseFacts, ZenonT(30) DEF IsPlain
    <3>3. ASSUME NEW e \in Expanded(us), NEW c \in Range(parse(e).out), NEW i
          PROVE  LET s == ServerOf(i, c)
                 IN  is_encrypted(s.transport) /\ s.server_name = None
                       <=> is_encrypted(c.transport) /\ c.host \in IpAddrs
      <4>1. IsCandidate(c, e) BY <3>2
      <4>2. c.host \in IpAddrs \/ c.host # None BY <4>1, NamesAssumption, Zenon DEF IsCandidate
      <4> DEFINE s == ServerOf(i, c)
      <4>3. s.transport = c.transport /\ s.server_name = IF c.host \in IpAddrs THEN None ELSE c.host
        BY <4>1, ServerFacts
      <4> HIDE DEF s
      <4> QED BY <4>2, <4>3 DEF s
    <3>4. nameless <=> ~ \A e \in Expanded(us) : Parses(e)
      <4>1. ASSUME nameless PROVE ~ \A e \in Expanded(us) : Parses(e)
        <5>1. PICK s \in Range(servers) : is_encrypted(s.transport) /\ s.server_name = None BY <4>1
        <5>2. PICK e \in Expanded(us) : MadeFrom(s, e) BY <3>1
        <5>3. PICK i, c : c \in Range(parse(e).out) /\ s = ServerOf(i, c) BY <5>2 DEF MadeFrom
        <5>4. is_encrypted(c.transport) /\ c.host \in IpAddrs BY <3>3, <5>1, <5>3
        <5> QED BY <5>3, <5>4 DEF Parses
      <4>2. ASSUME ~ \A e \in Expanded(us) : Parses(e) PROVE nameless
        <5>1. PICK e \in Expanded(us) : ~Parses(e) BY <4>2
        <5>2. PICK c \in Range(parse(e).out) : is_encrypted(c.transport) /\ c.host \in IpAddrs
          BY <3>2, <5>1 DEF Parses
        <5>3. PICK i : ServerOf(i, c) \in Range(servers) BY <3>1, Zenon
        <5> QED BY <3>3, <5>2, <5>3
      <4> QED BY <4>1, <4>2
    <3>5. servers = <<>> <=> Expanded(us) = {}
      <4>1. servers = <<>> <=> Range(servers) = {} BY <3>1, RangeOfList
      <4> QED BY <3>1, <3>2, <4>1, Zenon
    <3> HIDE DEF strange, unread, nameless
    <3> QED BY <1>1, <1>2, <1>3, <1>5, <2>5, <3>1, <3>4, <3>5
  <2> QED BY <2>4, <2>5
<1> QED BY <1>4, <1>5

-----------------------------------------------------------------------------
(* The names that were written, and the servers of a file.                 *)

\* The entries a file can lead to, with the tables of `auto` and the profiles it names.
Entries(f) == Range(Conf[f].upstreams) \cup Range(ChinaEntries) \cup Range(GlobalEntries)
AllEntries(f) ==
    Entries(f) \cup UNION {Range(builtin_expand(e.profile)) : e \in {x \in Entries(f) : x.form = "builtin"}}
HostsOf(f) == {e.host : e \in {x \in AllEntries(f) : x.form = "uri"}}
WordsOf(f) == {e.word : e \in {x \in AllEntries(f) : x.form = "word"}}
HandlesOf(f) == {h \in HostsOf(f) : is_bare_alias(h)} \cup WordsOf(f)

LEMMA WrittenNames ==
    ASSUME NEW f \in Files
    PROVE  /\ \A h \in HostsOf(f) \ HandlesOf(f) : h \in Written[f]
           /\ \A h \in HandlesOf(f), t \in {"Doh", "Dot", "Doq"} :
                FirstSome(<<alias_endpoint_host(h, t), h>>) \in Written[f]
<1> DEFINE Name(h, t) == FirstSome(<<alias_endpoint_host(h, t), h>>)
           transports == {"Doh", "Dot", "Doq"}
<1>1. Written[f] = (HostsOf(f) \ HandlesOf(f))
                   \cup {Name(h, t) : h \in HandlesOf(f), t \in transports}
  BY DEF Written, Entries, AllEntries, HostsOf, WordsOf, HandlesOf
<1> HIDE DEF Name, transports
<1>2. \A h \in HandlesOf(f), t \in transports : Name(h, t) \in Written[f] BY <1>1
<1>3. \A h \in HostsOf(f) \ HandlesOf(f) : h \in Written[f] BY <1>1
<1> QED BY <1>2, <1>3, Zenon DEF Name, transports

LEMMA NothingThenSome ==
    ASSUME NEW y, y # None
    PROVE  FirstSome(<<None, y>>) = y
<1> DEFINE s == <<None, y>>
<1>1. s[1] = None /\ s[2] = y /\ s = [i \in 1..2 |-> s[i]] OBVIOUS
<1>2. 2 \in Nat /\ 2 \in 1..2 /\ 1..2 = {1, 2} OBVIOUS
<1> HIDE DEF s
<1>3. FirstSome(s) # None BY <1>1, <1>2, FirstSomeFound, Zenon
<1>4. PICK i \in 1..2 : FirstSome(s) = s[i] BY <1>1, <1>2, <1>3, FirstSomeThere, Zenon
<1> QED BY <1>1, <1>2, <1>3, <1>4 DEF s

\* A name that is used as written is one of those the file wrote.
LEMMA PlainNameWritten ==
    ASSUME NEW f \in Files, NEW h \in HostsOf(f), h \notin IpAddrs, h # None, ~is_bare_alias(h)
    PROVE  h \in Written[f]
<1>1. CASE h \notin HandlesOf(f) BY <1>1, WrittenNames, ZenonT(30)
<1>2. CASE h \in HandlesOf(f) /\ provider(h) = None
  <2>1. alias_endpoint_host(h, "Doh") = None BY <1>2 DEF alias_endpoint_host
  <2>2. FirstSome(<<alias_endpoint_host(h, "Doh"), h>>) \in Written[f] BY <1>2, WrittenNames, Zenon
  <2> QED BY <2>1, <2>2, NothingThenSome
<1>3. CASE h \in HandlesOf(f) /\ provider(h) # None
  <2>1. provider(h) \in Range(Catalog) /\ Answers(provider(h), h) BY <1>3, ProviderFacts
  <2>2. Range(provider(h).addresses) \subseteq IpAddrs
    <3>1. provider(h).addresses \in Seq(IpAddrs) BY <2>1, CatalogAssumption
    <3> QED BY <3>1 DEF Range
  <2>3. h \in endpoint_hosts(provider(h)) BY <1>3, <2>1, <2>2 DEF Answers, is_bare_alias
  <2>4. PICK t \in {"Doh", "Dot", "Doq"} : alias_endpoint_host(h, t) = h
    BY <1>3, <2>3, HandleNames
  <2>5. FirstSome(<<alias_endpoint_host(h, t), h>>) \in Written[f] BY <1>3, WrittenNames, Zenon
  <2>6. FirstSome(<<alias_endpoint_host(h, t), h>>) = h BY <2>4, FirstOfTwo
  <2> QED BY <2>5, <2>6
<1> QED BY <1>1, <1>2, <1>3, ZenonT(30)

\* Whatever host an entry leads to, it is an address or a name that was written.
LEMMA LeadsToWritten ==
    ASSUME NEW f \in Files, NEW e \in AllEntries(f), IsPlain(e), e.form # "bare",
           NEW h \in Names, LeadsTo(e, h)
    PROVE  h \in Written[f]
<1>0. h # None /\ h \notin IpAddrs BY NamesAssumption
<1>1. CASE e.form = "word"
  <2>1. provider(e.word) # None /\ h = alias_endpoint_host(e.word, "Doh") BY <1>1, ZenonT(30) DEF LeadsTo
  <2>2. e.word \in HandlesOf(f) BY <1>1 DEF HandlesOf, WordsOf
  <2>3. FirstSome(<<alias_endpoint_host(e.word, "Doh"), e.word>>) \in Written[f]
    BY <2>2, WrittenNames, Zenon
  <2> QED BY <1>0, <2>1, <2>3, FirstOfTwo
<1>2. CASE e.form = "uri"
  <2>1. PICK t \in {"Doh", "Dot", "Doq"} : h = UriHost(e, t) BY <1>2 DEF LeadsTo
  <2>2. e.host \in HostsOf(f) BY <1>2 DEF HostsOf
  <2>3. e.host \notin IpAddrs BY <1>0, <2>1 DEF UriHost
  <2>4. e.host # None BY <1>2, <2>3, NamesAssumption DEF IsPlain, IsEntry
  <2>5. CASE is_bare_alias(e.host)
    <3>1. e.host \in HandlesOf(f) BY <2>2, <2>5 DEF HandlesOf
    <3>2. h = FirstSome(<<alias_endpoint_host(e.host, t), e.host>>)
      BY <2>1, <2>3, <2>5, Zenon DEF UriHost
    <3> QED BY <3>1, <3>2, WrittenNames, Zenon
  <2>6. CASE ~is_bare_alias(e.host)
    <3>1. h = e.host BY <2>1, <2>3, <2>6, Zenon DEF UriHost
    <3> QED BY <2>2, <2>3, <2>4, <2>6, <3>1, PlainNameWritten
  <2> QED BY <2>5, <2>6
<1> QED BY <1>1, <1>2 DEF IsPlain

\* A server of file f: well formed, and encrypted only with a name that was written.
ServerOK(f, s) ==
    IsServer(s) /\ (is_encrypted(s.transport) => s.server_name # None /\ s.server_name \in Written[f])

\* The servers of an accepted list whose entries come from file f.
LEMMA DesugarServers ==
    ASSUME NEW f \in Files, NEW us, us \in Seq(Range(us)), \A u \in Range(us) : IsEntry(u),
           desugar(us).ok, \A e \in Expanded(us) : e \in AllEntries(f) \/ e.form = "bare"
    PROVE  /\ desugar(us).out \in Seq(Range(desugar(us).out))
           /\ \A s \in Range(desugar(us).out) : ServerOK(f, s)
<1>1. /\ ProfilesKnown(us) /\ \A e \in Expanded(us) : Parses(e)
      /\ desugar(us).out \in Seq(Range(desugar(us).out))
      /\ \A s \in Range(desugar(us).out) : \E e \in Expanded(us) : MadeFrom(s, e)
  BY DesugarFacts, ZenonT(30)
<1>2. \A e \in Expanded(us) : IsPlain(e) BY <1>1, ExpandedList, Zenon
<1>3. ASSUME NEW s \in Range(desugar(us).out) PROVE ServerOK(f, s)
  <2>1. PICK e \in Expanded(us) : MadeFrom(s, e) BY <1>1
  <2>2. PICK i, c : c \in Range(parse(e).out) /\ s = ServerOf(i, c) BY <2>1 DEF MadeFrom
  <2>3. IsPlain(e) /\ Parses(e) BY <1>1, <1>2, ZenonT(30)
  <2>4. IsCandidate(c, e) BY <2>2, <2>3, ParseFacts, ZenonT(30) DEF IsPlain, Parses
  <2>5. /\ IsServer(s) /\ s.transport = c.transport
        /\ s.server_name = IF c.host \in IpAddrs THEN None ELSE c.host
    BY <2>2, <2>4, ServerFacts, Zenon
  <2>6. ASSUME is_encrypted(s.transport)
        PROVE  s.server_name # None /\ s.server_name \in Written[f]
    <3>1. c.host \notin IpAddrs BY <2>2, <2>3, <2>5, <2>6, ZenonT(30) DEF Parses
    <3>2. c.host \in Names /\ LeadsTo(e, c.host) /\ e.form # "bare"
      BY <2>4, <2>5, <2>6, <3>1, ZenonT(30) DEF IsCandidate
    <3>3. c.host \in Written[f] BY <2>3, <3>2, LeadsToWritten
    <3> QED BY <2>5, <3>1, <3>2, <3>3, NamesAssumption, ZenonT(30)
  <2> QED BY <2>5, <2>6 DEF ServerOK
<1> QED BY <1>1, <1>3

-----------------------------------------------------------------------------
(* `auto`, the bootstrap lookups and the registry.                         *)

\* What a file leads to comes from its entries and from the tables.
LEMMA ExpandedWritten ==
    ASSUME NEW f \in Files, NEW e \in Expanded(Conf[f].upstreams)
    PROVE  e \in AllEntries(f)
<1> DEFINE us == Conf[f].upstreams
<1>1. PICK i \in DOMAIN us : e \in Range(Expansion(us[i])) BY DEF Expanded
<1>2. us[i] \in Range(us) BY DEF Range
<1>3. us[i] \in Entries(f) /\ Range(GlobalEntries) \subseteq Entries(f) BY <1>2 DEF Entries
<1>4. IsEntry(us[i]) BY <1>2, LifecycleAssumption
<1> DEFINE u == us[i]
<1> HIDE DEF u, us
<1>5. CASE u.form = "auto"
  <2>1. Expansion(u) = auto_expand(None, "Global") BY <1>5, Zenon DEF Expansion
  <2>2. auto_expand(None, "Global") = <<>> \o GlobalEntries BY DEF auto_expand
  <2>3. <<>> \o GlobalEntries = GlobalEntries BY RegionsAssumption
  <2> QED BY <1>1, <1>3, <2>1, <2>2, <2>3 DEF AllEntries, u
<1>6. CASE u.form = "builtin"
  <2>1. Expansion(u) = builtin_expand(u.profile) BY <1>6, Zenon DEF Expansion
  <2>2. Range(builtin_expand(u.profile)) \subseteq AllEntries(f)
    BY <1>3, <1>6 DEF AllEntries, u
  <2> QED BY <1>1, <2>1, <2>2 DEF u
<1>7. CASE u.form \notin {"auto", "builtin"}
  <2>1. Range(Expansion(u)) = {u} BY <1>4, <1>7, ExpansionFacts DEF u
  <2> QED BY <1>1, <1>3, <2>1 DEF AllEntries, u
<1> QED BY <1>5, <1>6, <1>7

\* What `auto` stands for on a host.
GatewayEntry(gateway) == [form |-> "bare", addr |-> gateway, port |-> 53]

LEMMA AutoFacts ==
    ASSUME NEW gateway, gateway = None \/ gateway \in IpAddrs, NEW region \in {"China", "Global"}
    PROVE  LET list == auto_expand(gateway, region)
           IN  /\ list \in Seq(Range(list)) /\ Range(list) # {}
               /\ \A e \in Range(list) :
                    /\ e.form \in {"bare", "uri"} /\ IsEntry(e) /\ Parses(e)
                    /\ \/ e = GatewayEntry(gateway)
                       \/ e \in Range(ChinaEntries) \cup Range(GlobalEntries)
<1> DEFINE table == IF region = "China" THEN ChinaEntries ELSE GlobalEntries
           first == IF gateway = None THEN <<>> ELSE <<GatewayEntry(gateway)>>
           list == auto_expand(gateway, region)
<1>1. list = first \o table BY DEF auto_expand, GatewayEntry
<1>2. table \in {ChinaEntries, GlobalEntries} OBVIOUS
<1>3. /\ table \in Seq(Range(table)) /\ desugar(table).ok
      /\ \A e \in Range(table) : IsEntry(e) /\ e.form \in {"bare", "uri"}
  BY <1>2, RegionsAssumption
<1>4. Range(table) \subseteq Range(ChinaEntries) \cup Range(GlobalEntries) BY <1>2
<1> HIDE DEF table, list
<1>5. Expanded(table) # {} /\ \A e \in Expanded(table) : Parses(e) BY <1>3, DesugarFacts
<1>6. Expanded(table) = Range(table)
  <2>1. Range(table) = {table[i] : i \in DOMAIN table} BY ZenonT(30) DEF Range
  <2>2. \A i \in DOMAIN table : Range(Expansion(table[i])) = {table[i]}
    BY <1>3, <2>1, ExpansionFacts
  <2> QED BY <2>1, <2>2 DEF Expanded
<1>7. /\ first \in Seq(Range(first))
      /\ \A e \in Range(first) : gateway \in IpAddrs /\ e = GatewayEntry(gateway)
  BY EmptyList, ListOfOne, Zenon
<1>8. ASSUME gateway \in IpAddrs
      PROVE  LET e == GatewayEntry(gateway)
             IN  e.form \in {"bare", "uri"} /\ IsEntry(e) /\ Parses(e)
  <2> DEFINE e == GatewayEntry(gateway)
  <2>1. e.form = "bare" /\ e.addr = gateway /\ e.port = 53 BY DEF GatewayEntry
  <2> HIDE DEF e
  <2>2. IsEntry(e) BY <1>8, <2>1 DEF IsEntry
  <2>3. parse(e) = Ok(<<Candidate("Udp", e.addr, e.port, <<>>)>>) BY <2>1, Zenon DEF parse
  <2>4. parse(e).ok BY <2>3 DEF Ok
  <2>5. \A c \in Range(parse(e).out) : IsCandidate(c, e) BY <2>1, <2>2, <2>4, ParseFacts
  <2>6. Parses(e) BY <2>1, <2>4, <2>5 DEF Parses, IsCandidate
  <2> QED BY <2>1, <2>2, <2>6 DEF e
<1> HIDE DEF first
<1>9. list \in Seq(Range(list)) /\ Range(list) = Range(first) \cup Range(table)
  BY <1>1, <1>3, <1>7, ListsJoin
<1>10. ASSUME NEW e \in Range(list)
       PROVE  /\ e.form \in {"bare", "uri"} /\ IsEntry(e) /\ Parses(e)
              /\ e = GatewayEntry(gateway) \/ e \in Range(ChinaEntries) \cup Range(GlobalEntries)
  <2>1. CASE e \in Range(first) BY <1>7, <1>8, <2>1
  <2>2. CASE e \in Range(table) BY <1>3, <1>4, <1>5, <1>6, <2>2
  <2> QED BY <1>9, <2>1, <2>2
<1> QED BY <1>5, <1>6, <1>9, <1>10 DEF list

\* An accepted file with `auto` is accepted however `auto` comes out on this host.
LEMMA MeasuredFacts ==
    ASSUME NEW us, us \in Seq(Range(us)), \A u \in Range(us) : IsEntry(u),
           desugar(us).ok, HasAuto(us),
           NEW gateway, gateway = None \/ gateway \in IpAddrs, NEW region \in {"China", "Global"}
    PROVE  LET m == Measured(us, gateway, region)
           IN  /\ m \in Seq(Range(m)) /\ \A u \in Range(m) : IsEntry(u)
               /\ desugar(m).ok
               /\ \A e \in Expanded(m) : \/ e \in Expanded(us) \/ e = GatewayEntry(gateway)
                                         \/ e \in Range(ChinaEntries) \cup Range(GlobalEntries)
<1> DEFINE n == Len(us)
           list == auto_expand(gateway, region)
           lists == [i \in DOMAIN us |-> IF us[i].form = "auto" THEN list ELSE <<us[i]>>]
           m == Measured(us, gateway, region)
<1>1. n \in Nat /\ DOMAIN us = 1..n /\ Range(us) = {us[i] : i \in 1..n} BY RangeOfList, ZenonT(30)
<1>2. m = Joined(lists) BY Zenon DEF Measured
<1>3. /\ lists = [i \in 1..n |-> lists[i]]
      /\ \A i \in 1..n : lists[i] = IF us[i].form = "auto" THEN list ELSE <<us[i]>>
  BY <1>1
<1>4. /\ list \in Seq(Range(list)) /\ Range(list) # {}
      /\ \A e \in Range(list) :
           /\ e.form \in {"bare", "uri"} /\ IsEntry(e) /\ Parses(e)
           /\ e = GatewayEntry(gateway) \/ e \in Range(ChinaEntries) \cup Range(GlobalEntries)
  BY AutoFacts, ZenonT(30)
<1>5. PICK k \in 1..n : us[k].form = "auto" BY <1>1 DEF HasAuto
<1> HIDE DEF n, list, lists, m
<1>6. ASSUME NEW i \in 1..n PROVE lists[i] \in Seq(Range(lists[i]))
  <2>1. CASE us[i].form = "auto" BY <1>3, <1>4, <2>1, ZenonT(30)
  <2>2. CASE us[i].form # "auto"
    <3>1. lists[i] = <<us[i]>> BY <1>3, <2>2
    <3>2. <<us[i]>> \in Seq(Range(<<us[i]>>)) BY ListOfOne
    <3> QED BY <3>1, <3>2
  <2> QED BY <2>1, <2>2
<1>7. m \in Seq(Range(m)) /\ Range(m) = UNION {Range(lists[i]) : i \in 1..n}
  BY <1>1, <1>2, <1>3, <1>6, JoinedLists, Zenon
<1>8. ASSUME NEW u \in Range(m) PROVE u \in Range(list) \/ (u \in Range(us) /\ u.form # "auto")
  <2>1. PICK i \in 1..n : u \in Range(lists[i]) BY <1>7
  <2>2. CASE us[i].form = "auto" BY <1>3, <2>1, <2>2
  <2>3. CASE us[i].form # "auto"
    <3>1. Range(lists[i]) = {us[i]} BY <1>3, <2>3, ListOfOne
    <3> QED BY <1>1, <2>1, <2>3, <3>1
  <2> QED BY <2>2, <2>3
<1>9. \A u \in Range(m) : IsEntry(u) BY <1>4, <1>8
<1>10. ProfilesKnown(us) /\ \A e \in Expanded(us) : Parses(e) BY DesugarFacts, ZenonT(30)
<1>11. ProfilesKnown(m) BY <1>4, <1>8, <1>10, ZenonT(30) DEF ProfilesKnown
<1>12. ASSUME NEW e \in Expanded(m) PROVE e \in Expanded(us) \/ e \in Range(list)
  <2>1. PICK j \in DOMAIN m : e \in Range(Expansion(m[j])) BY DEF Expanded
  <2>2. m[j] \in Range(m) BY DEF Range
  <2>3. CASE m[j] \in Range(list)
    <3>1. Range(Expansion(m[j])) = {m[j]} BY <1>4, <2>3, ExpansionFacts, Zenon
    <3> QED BY <2>1, <2>3, <3>1
  <2>4. CASE m[j] \in Range(us)
    <3>1. PICK i \in 1..n : m[j] = us[i] BY <1>1, <2>4
    <3>2. Range(Expansion(us[i])) \subseteq Expanded(us) BY <1>1 DEF Expanded
    <3> QED BY <2>1, <3>1, <3>2
  <2> QED BY <1>8, <2>2, <2>3, <2>4
<1>13. Expanded(m) # {}
  <2>1. PICK e \in Range(list) : TRUE BY <1>4
  <2>2. e \in Range(m) BY <1>3, <1>5, <1>7, ZenonT(30)
  <2>3. PICK j \in DOMAIN m : e = m[j] BY <2>2, ZenonT(30) DEF Range
  <2>4. e \in Range(Expansion(m[j])) BY <1>4, <2>3, ExpansionFacts
  <2> QED BY <2>4 DEF Expanded
<1>14. desugar(m).ok
  BY <1>4, <1>7, <1>9, <1>10, <1>11, <1>12, <1>13, DesugarFacts, ZenonT(30)
<1> QED BY <1>4, <1>7, <1>9, <1>12, <1>14 DEF m

\* The default gateway, or nothing.
LEMMA GatewayAddress ==
    ASSUME NEW listeners, NEW onUdp, NEW tcp, NEW looped
    PROVE  LET g == judge_gateway(Gateway, listeners, onUdp, tcp, looped)
           IN  g = None \/ g \in IpAddrs
BY LifecycleAssumption, Zenon DEF judge_gateway

\* The servers of a file that loads, as a reload builds them.
LEMMA LoadedServers ==
    ASSUME NEW f \in Loadable
    PROVE  LET servers == desugar(Conf[f].upstreams).out
           IN  servers \in Seq(Range(servers)) /\ \A s \in Range(servers) : ServerOK(f, s)
<1> DEFINE us == Conf[f].upstreams
<1>1. f \in Files /\ desugar(us).ok BY DEF Loadable
<1>2. us \in Seq(Range(us)) /\ \A u \in Range(us) : IsEntry(u) BY <1>1, LifecycleAssumption
<1>3. \A e \in Expanded(us) : e \in AllEntries(f) BY <1>1, ExpandedWritten
<1> HIDE DEF us
<1> QED BY <1>1, <1>2, <1>3, DesugarServers DEF us

\* The servers a process starts with: those at the adopted gateway's address are forwarders.
LEMMA StartingServers ==
    ASSUME NEW f \in Loadable, NEW gateway, gateway = None \/ gateway \in IpAddrs,
           NEW region \in {"China", "Global"}
    PROVE  LET servers == expand_auto(Conf[f].upstreams, gateway, region)
           IN  /\ servers \in Seq(Range(servers)) /\ \A s \in Range(servers) : ServerOK(f, s)
               /\ HasAuto(Conf[f].upstreams) =>
                    \A s \in Range(servers) : gateway \in Range(s.addresses) => s.role = "LocalForwarder"
<1> DEFINE us == Conf[f].upstreams
           m == Measured(us, gateway, region)
           built == desugar(m)
           servers == expand_auto(us, gateway, region)
           mark(s) == IF gateway \in Range(s.addresses)
                      THEN [s EXCEPT !.role = "LocalForwarder"] ELSE s
<1>1. f \in Files /\ desugar(us).ok BY DEF Loadable
<1>2. us \in Seq(Range(us)) /\ \A u \in Range(us) : IsEntry(u) BY <1>1, LifecycleAssumption
<1>3. servers = IF ~HasAuto(us) \/ ~built.ok THEN desugar(us).out
                ELSE [i \in DOMAIN built.out |-> mark(built.out[i])]
  BY DEF expand_auto
<1>4. desugar(us).out \in Seq(Range(desugar(us).out))
      /\ \A s \in Range(desugar(us).out) : ServerOK(f, s)
  BY LoadedServers
<1>5. \A e \in Expanded(us) : e \in AllEntries(f) BY <1>1, ExpandedWritten
<1> HIDE DEF us, servers
<1>6. CASE ~HasAuto(us) BY <1>3, <1>4, <1>6, ZenonT(30) DEF servers, us
<1>7. CASE HasAuto(us)
  <2>1. /\ m \in Seq(Range(m)) /\ built.ok
        /\ \A u \in Range(m) : IsEntry(u)
        /\ \A e \in Expanded(m) : \/ e \in Expanded(us) \/ e = GatewayEntry(gateway)
                                  \/ e \in Range(ChinaEntries) \cup Range(GlobalEntries)
    BY <1>1, <1>2, <1>7, MeasuredFacts
  <2> HIDE DEF m
  <2>2. \A e \in Expanded(m) : e \in AllEntries(f) \/ e.form = "bare"
    <3>1. GatewayEntry(gateway).form = "bare" BY DEF GatewayEntry
    <3>2. Range(ChinaEntries) \cup Range(GlobalEntries) \subseteq AllEntries(f)
      BY DEF AllEntries, Entries
    <3> QED BY <1>5, <2>1, <3>1, <3>2
  <2> DEFINE out == built.out
             n == Len(out)
  <2>4. out \in Seq(Range(out)) /\ \A s \in Range(out) : ServerOK(f, s)
    BY <1>1, <2>1, <2>2, DesugarServers
  <2>5. servers = [i \in DOMAIN out |-> mark(out[i])] BY <1>3, <1>7, <2>1
  <2> HIDE DEF built, out
  <2>6. n \in Nat /\ DOMAIN out = 1..n /\ Range(out) = {out[i] : i \in 1..n} BY <2>4, RangeOfList
  <2>7. ASSUME NEW s, ServerOK(f, s)
        PROVE  /\ ServerOK(f, mark(s))
               /\ gateway \in Range(mark(s).addresses) => mark(s).role = "LocalForwarder"
    <3> DEFINE marked == [s EXCEPT !.role = "LocalForwarder"]
    <3>1. s = [name |-> s.name, transport |-> s.transport, port |-> s.port,
               server_name |-> s.server_name, addresses |-> s.addresses, role |-> s.role]
      BY <2>7 DEF ServerOK, IsServer
    <3>2. /\ marked.role = "LocalForwarder" /\ marked.port = s.port
          /\ marked.server_name = s.server_name /\ marked.addresses = s.addresses
          /\ marked.transport = s.transport
          /\ marked = [name |-> marked.name, transport |-> marked.transport, port |-> marked.port,
                       server_name |-> marked.server_name, addresses |-> marked.addresses,
                       role |-> marked.role]
      BY <3>1
    <3> HIDE DEF marked
    <3>3. ServerOK(f, marked) BY <2>7, <3>2 DEF ServerOK, IsServer
    <3>4. mark(s) = IF gateway \in Range(s.addresses) THEN marked ELSE s BY DEF marked
    <3> HIDE DEF mark
    <3> QED BY <2>7, <3>2, <3>3, <3>4
  <2> HIDE DEF mark
  <2>8. servers = [i \in 1..n |-> servers[i]] /\ \A i \in 1..n : servers[i] = mark(out[i])
    BY <2>5, <2>6
  <2>9. Range(servers) = {servers[i] : i \in 1..n} /\ servers \in Seq(Range(servers))
    BY <2>6, <2>8, RangeOf, ZenonT(30)
  <2>10. ASSUME NEW s \in Range(servers)
         PROVE  ServerOK(f, s) /\ (gateway \in Range(s.addresses) => s.role = "LocalForwarder")
    <3>1. PICK i \in 1..n : s = mark(out[i]) BY <2>8, <2>9
    <3>2. ServerOK(f, out[i]) BY <2>4, <2>6
    <3> QED BY <2>7, <3>1, <3>2
  <2> QED BY <2>9, <2>10 DEF servers, us
<1> QED BY <1>6, <1>7

\* A lookup only gives addresses to a server that has a name and had none.
LEMMA ResolvedServers ==
    ASSUME NEW f, NEW servers, servers \in Seq(Range(servers)),
           \A s \in Range(servers) : ServerOK(f, s), NEW viaSeeds \in Lookups, NEW viaSystem \in Lookups
    PROVE  LET resolved == resolve_pending(servers, viaSeeds, viaSystem)
           IN  \A s \in Range(resolved) :
                 ServerOK(f, s) /\ (s.server_name = None => s \in Range(servers))
<1> DEFINE names == pending(servers)
           seeds == seed_resolvers(servers)
           found(s) == lookup(s.server_name, seeds, viaSeeds, viaSystem)
           apply(s) == IF s.addresses = <<>> /\ s.server_name \in names
                       THEN [s EXCEPT !.addresses = found(s)] ELSE s
           resolved == resolve_pending(servers, viaSeeds, viaSystem)
<1>1. resolved = [i \in DOMAIN servers |-> apply(servers[i])] BY DEF resolve_pending
<1>2. \A n \in names : n # None BY DEF pending
<1> HIDE DEF names, resolved
<1>3. ASSUME NEW s \in Range(servers)
      PROVE  ServerOK(f, apply(s)) /\ (apply(s).server_name = None => apply(s) = s)
  <2>1. CASE s.addresses = <<>> /\ s.server_name \in names
    <3> DEFINE given == [s EXCEPT !.addresses = found(s)]
               a == found(s)
    <3>1. ServerOK(f, s) OBVIOUS
    <3>2. /\ s = [name |-> s.name, transport |-> s.transport, port |-> s.port,
                  server_name |-> s.server_name, addresses |-> s.addresses, role |-> s.role]
          /\ s.server_name \in Names \cup {None}
      BY <3>1 DEF ServerOK, IsServer
    <3>3. s.server_name \in Names /\ s.server_name # None BY <1>2, <2>1, <3>2
    <3>4. a \in Seq(IpAddrs) BY <3>3, LifecycleAssumption DEF lookup
    <3> HIDE DEF a
    <3>5. given = [s EXCEPT !.addresses = a] BY DEF a
    <3> HIDE DEF given
    <3>6. /\ given.role = s.role /\ given.port = s.port
          /\ given.server_name = s.server_name /\ given.addresses = a
          /\ given.transport = s.transport
          /\ given = [name |-> given.name, transport |-> given.transport, port |-> given.port,
                      server_name |-> given.server_name, addresses |-> given.addresses,
                      role |-> given.role]
      BY <3>2, <3>5
    <3>7. ServerOK(f, given) BY <3>1, <3>4, <3>6 DEF ServerOK, IsServer
    <3>8. apply(s) = given BY <2>1 DEF given
    <3> HIDE DEF apply
    <3> QED BY <3>3, <3>6, <3>7, <3>8
  <2>2. CASE ~(s.addresses = <<>> /\ s.server_name \in names)
    <3>1. apply(s) = s BY <2>2
    <3> HIDE DEF apply
    <3> QED BY <3>1
  <2> QED BY <2>1, <2>2
<1>4. Range(servers) = {servers[i] : i \in DOMAIN servers}
      /\ Range(resolved) = {resolved[i] : i \in DOMAIN resolved}
  BY DEF Range
<1> HIDE DEF apply
<1>5. DOMAIN resolved = DOMAIN servers /\ \A i \in DOMAIN servers : resolved[i] = apply(servers[i])
  BY <1>1
<1>6. ASSUME NEW s \in Range(resolved)
      PROVE  ServerOK(f, s) /\ (s.server_name = None => s \in Range(servers))
  <2>1. PICK i \in DOMAIN servers : s = apply(servers[i]) BY <1>4, <1>5
  <2>2. servers[i] \in Range(servers) BY <1>4
  <2> QED BY <1>3, <2>1, <2>2
<1> QED BY <1>6 DEF resolved

\* A route that leads to address a of server s.
Carries(route, s, a) ==
    /\ route.server = s.name /\ route.addr = a /\ route.port = s.port
    /\ route.role = s.role /\ route.authority = authority_of(s, a)
    /\ route.transport \in {s.transport, "Tcp"}

\* The routes of a registry, and the TCP twin of each UDP route.
LEMMA BuildFacts ==
    ASSUME NEW servers, NEW proxies, NEW route \in build(servers, proxies)
    PROVE  \E s \in Range(servers) : \E a \in Range(s.addresses) :
             /\ Carries(route, s, a)
             /\ route.transport = "Udp" => Route(s, "Tcp", a, Direct, TRUE) \in build(servers, proxies)
<1> DEFINE paths == {Direct} \cup {proxies[i].id : i \in DOMAIN proxies}
           plain(s, a) == {Route(s, s.transport, a, path, FALSE) :
                             path \in {p \in paths : path_supports(p, s.transport)}}
           twins(s, a) == IF s.transport = "Udp" THEN Companions(s, a, paths) ELSE {}
           all == build(servers, proxies)
<1>1. all = UNION {UNION {plain(s, a) \cup twins(s, a) : a \in Range(s.addresses)} : s \in Range(servers)}
  BY Zenon DEF build
<1> HIDE DEF plain, twins, all
<1>2. PICK s \in Range(servers) : \E a \in Range(s.addresses) : route \in plain(s, a) \cup twins(s, a)
  BY <1>1 DEF all
<1>3. PICK a \in Range(s.addresses) : route \in plain(s, a) \cup twins(s, a) BY <1>2
<1>4. twins(s, a) \subseteq all BY <1>1
<1>5. Direct \in paths OBVIOUS
<1> HIDE DEF paths
<1>6. CASE route \in plain(s, a)
  <2>1. PICK path : route = Route(s, s.transport, a, path, FALSE) BY <1>6, Zenon DEF plain
  <2>2. route.transport = s.transport BY <2>1 DEF Route
  <2>3. s.transport = "Udp" => Route(s, "Tcp", a, Direct, TRUE) \in twins(s, a)
    BY <1>5, Zenon DEF twins, Companions
  <2>4. Carries(route, s, a) BY <2>1 DEF Carries, Route
  <2> QED BY <1>4, <2>2, <2>3, <2>4, Zenon DEF all
<1>7. CASE route \in twins(s, a)
  <2>1. PICK path : route = Route(s, "Tcp", a, path, TRUE) BY <1>7, Zenon DEF twins, Companions
  <2>2. route.transport = "Tcp" BY <2>1 DEF Route
  <2>3. Carries(route, s, a) BY <2>1 DEF Carries, Route
  <2> QED BY <2>2, <2>3
<1> QED BY <1>3, <1>6, <1>7, ZenonT(30)

\* An authority that is an address and a port belongs to a server without a name.
LEMMA AddressAuthority ==
    ASSUME NEW s, IsServer(s), NEW a, NEW b \in IpAddrs, NEW port \in Nat,
           authority_of(s, a) = <<b, port>>
    PROVE  s.server_name = None /\ a = b
<1>1. s.server_name \in Names \cup {None} BY DEF IsServer
<1>2. <<b, port>> \in IpAddrs \X Nat OBVIOUS
<1>3. s.server_name = None BY <1>1, <1>2, NamesAssumption DEF authority_of
<1>4. <<a, s.port>> = <<b, port>> BY <1>3, ZenonT(30) DEF authority_of
<1> QED BY <1>3, <1>4

\* What a registry owes to its servers: written names, and a way to retry over TCP.
RegistryOK(f, rs) ==
    /\ \A route \in rs : is_encrypted(route.transport) => route.authority \in Written[f]
    /\ \A u \in {x \in rs : x.transport = "Udp"} :
         \E t \in rs :
           /\ t.stream_companion /\ t.transport = "Tcp" /\ t.path = Direct
           /\ t.server = u.server /\ t.addr = u.addr /\ t.port = u.port
           /\ t.authority = u.authority /\ t.role = u.role

LEMMA BuiltRegistry ==
    ASSUME NEW f, NEW servers, \A s \in Range(servers) : ServerOK(f, s), NEW proxies
    PROVE  RegistryOK(f, build(servers, proxies))
<1> DEFINE rs == build(servers, proxies)
<1>1. ASSUME NEW route \in rs, is_encrypted(route.transport) PROVE route.authority \in Written[f]
  <2>1. PICK s \in Range(servers) : \E a \in Range(s.addresses) : Carries(route, s, a)
    BY BuildFacts, Zenon
  <2>2. PICK a \in Range(s.addresses) : Carries(route, s, a) BY <2>1
  <2>3. route.transport \in {s.transport, "Tcp"} /\ route.authority = authority_of(s, a)
    BY <2>2 DEF Carries
  <2>5. is_encrypted(s.transport) BY <1>1, <2>3, ZenonT(30) DEF is_encrypted
  <2>6. s.server_name # None /\ s.server_name \in Written[f] BY <2>5 DEF ServerOK
  <2> QED BY <2>3, <2>6 DEF authority_of
<1>2. ASSUME NEW u \in rs, u.transport = "Udp"
      PROVE  \E t \in rs :
               /\ t.stream_companion /\ t.transport = "Tcp" /\ t.path = Direct
               /\ t.server = u.server /\ t.addr = u.addr /\ t.port = u.port
               /\ t.authority = u.authority /\ t.role = u.role
  <2>1. PICK s \in Range(servers) : \E a \in Range(s.addresses) :
          Carries(u, s, a) /\ Route(s, "Tcp", a, Direct, TRUE) \in rs
    BY <1>2, BuildFacts, Zenon
  <2>2. PICK a \in Range(s.addresses) : Carries(u, s, a) /\ Route(s, "Tcp", a, Direct, TRUE) \in rs
    BY <2>1, Zenon
  <2>4. /\ u.server = s.name /\ u.addr = a /\ u.port = s.port
        /\ u.role = s.role /\ u.authority = authority_of(s, a)
    BY <2>2, ZenonT(30) DEF Carries
  <2> DEFINE twin == Route(s, "Tcp", a, Direct, TRUE)
  <2>5. /\ twin.server = s.name /\ twin.transport = "Tcp" /\ twin.addr = a /\ twin.port = s.port
        /\ twin.path = Direct /\ twin.role = s.role /\ twin.stream_companion
        /\ twin.authority = authority_of(s, a)
    BY DEF Route
  <2>6. twin \in rs BY <2>2, Zenon
  <2> HIDE DEF twin, rs
  <2> QED BY <2>4, <2>5, <2>6, Zenon
<1> QED BY <1>1, <1>2 DEF RegistryOK

-----------------------------------------------------------------------------
\* A process starts with sound routes.
LEMMA StartSound ==
    ASSUME NEW onUdp, NEW tcp, NEW looped, NEW region \in {"China", "Global"},
           NEW viaSeeds \in Lookups, NEW viaSystem \in Lookups,
           Start(onUdp, tcp, looped, region, viaSeeds, viaSystem)
    PROVE  RoutesAreSound'
<1> DEFINE us == Conf[file].upstreams
           gateway == judge_gateway(Gateway, Conf[file].listen, onUdp, tcp, looped)
           expanded == expand_auto(us, gateway, region)
           resolved == resolve_pending(expanded, viaSeeds, viaSystem)
<1>1. /\ file \in Loadable /\ detect_cycles(expanded, Conf[file].listen) = {}
      /\ config' = file /\ reloaded' = FALSE
      /\ routes' = build(resolved, Conf[file].proxies)
      /\ adopted' = IF HasAuto(us) THEN gateway ELSE None
  BY Zenon DEF Start
<1>2. gateway = None \/ gateway \in IpAddrs BY GatewayAddress
<1>3. file \in Files BY <1>1, ZenonT(30) DEF Loadable
<1> HIDE DEF gateway
<1>4. /\ expanded \in Seq(Range(expanded)) /\ \A s \in Range(expanded) : ServerOK(file, s)
      /\ HasAuto(us) => \A s \in Range(expanded) :
                           gateway \in Range(s.addresses) => s.role = "LocalForwarder"
  BY <1>1, <1>2, StartingServers
<1> HIDE DEF expanded
<1>5. \A s \in Range(resolved) :
         ServerOK(file, s) /\ (s.server_name = None => s \in Range(expanded))
  BY <1>4, ResolvedServers
<1> HIDE DEF resolved
<1>6. RegistryOK(file, routes') BY <1>1, <1>5, BuiltRegistry, ZenonT(30)
<1>7. ASSUME NEW route \in routes', NEW b \in IpAddrs, route.authority = <<b, route.port>>
      PROVE  \E s \in Range(expanded) :
               /\ b \in Range(s.addresses) /\ s.port = route.port /\ s.role = route.role
               /\ route.addr = b
  <2>1. PICK s \in Range(resolved) : \E a \in Range(s.addresses) : Carries(route, s, a)
    BY <1>1, BuildFacts, Zenon
  <2>2. PICK a \in Range(s.addresses) : Carries(route, s, a) BY <2>1
  <2>3. route.authority = authority_of(s, a) /\ route.port = s.port /\ route.role = s.role
        /\ route.addr = a
    BY <2>2, ZenonT(30) DEF Carries
  <2>4. ServerOK(file, s) /\ IsServer(s) /\ s.port \in Nat BY <1>5, ZenonT(30) DEF ServerOK, IsServer
  <2>5. s.server_name = None /\ a = b BY <1>7, <2>3, <2>4, AddressAuthority
  <2>6. s \in Range(expanded) BY <1>5, <2>5
  <2> QED BY <2>3, <2>5, <2>6
<1>8. \A route \in routes' : route.addr \in IpAddrs
  <2> SUFFICES ASSUME NEW route \in routes' PROVE route.addr \in IpAddrs OBVIOUS
  <2>1. PICK s \in Range(resolved) : \E a \in Range(s.addresses) : Carries(route, s, a)
    BY <1>1, BuildFacts, Zenon
  <2>2. PICK a \in Range(s.addresses) : route.addr = a BY <2>1 DEF Carries
  <2>3. s.addresses \in Seq(IpAddrs) BY <1>5 DEF ServerOK, IsServer
  <2>4. Range(s.addresses) \subseteq IpAddrs BY <2>3 DEF Range
  <2> QED BY <2>2, <2>4
<1>9. IdentityIsWritten' /\ TruncationCanBeRetried'
  BY <1>1, <1>6, Zenon DEF IdentityIsWritten, TruncationCanBeRetried, RegistryOK
<1>10. GatewayIsNoAuthority'
  <2> SUFFICES ASSUME adopted' # None, NEW route \in routes',
                      route.authority = <<adopted', route.port>>
               PROVE  route.role = "LocalForwarder"
    BY Zenon DEF GatewayIsNoAuthority
  <2>1. HasAuto(us) /\ adopted' = gateway /\ gateway \in IpAddrs BY <1>1, <1>2, ZenonT(30)
  <2>2. PICK s \in Range(expanded) : gateway \in Range(s.addresses) /\ s.role = route.role
    BY <1>7, <2>1
  <2> QED BY <1>4, <2>1, <2>2, ZenonT(30)
<1>11. StartsWithoutCycle'
  <2> SUFFICES ASSUME NEW route \in routes', NEW l \in Conf[file].listen,
                      route.authority = <<route.addr, route.port>>, l.port = route.port
               PROVE  ~(l.addr = route.addr \/ (l.addr = Unspecified /\ route.addr \in LocalAddrs))
    BY <1>1, Zenon DEF StartsWithoutCycle
  <2>1. PICK s \in Range(expanded) : route.addr \in Range(s.addresses) /\ s.port = route.port
    BY <1>7, <1>8
  <2>2. ~ /\ s \in Range(expanded)
          /\ \E a \in Range(s.addresses) :
               \/ [addr |-> a, port |-> s.port] \in Conf[file].listen
               \/ /\ [addr |-> Unspecified, port |-> s.port] \in Conf[file].listen
                  /\ is_local_address(a)
    BY <1>1, Zenon DEF detect_cycles
  <2>3. l = [addr |-> l.addr, port |-> s.port] BY <1>3, <2>1, LifecycleAssumption, ZenonT(30)
  <2> QED BY <2>1, <2>2, <2>3, ZenonT(30) DEF is_local_address
<1> QED BY <1>9, <1>10, <1>11 DEF RoutesAreSound

\* A reload swaps in sound routes.
LEMMA SwapSound ==
    ASSUME LifeInv, NEW r \in Reloaders, ReloadSwap(r)
    PROVE  RoutesAreSound'
<1> DEFINE c == reloader[r].candidate
           servers == desugar(Conf[c].upstreams).out
<1>1. /\ reloader[r].pc = "built" /\ config' = c /\ reloaded' = TRUE
      /\ routes' = build(servers, Conf[c].proxies)
  BY Zenon DEF ReloadSwap
<1>2. c \in Loadable BY <1>1 DEF LifeInv, CallInv
<1> HIDE DEF c
<1>3. \A s \in Range(servers) : ServerOK(c, s) BY <1>2, LoadedServers
<1> HIDE DEF servers
<1>4. RegistryOK(c, routes') BY <1>1, <1>3, BuiltRegistry, ZenonT(30)
<1> QED BY <1>1, <1>4 DEF RoutesAreSound, IdentityIsWritten, TruncationCanBeRetried,
                          GatewayIsNoAuthority, StartsWithoutCycle, RegistryOK

\* The steps that leave the routes and their configuration alone.
LEMMA RoutesUntouched ==
    ASSUME RoutesAreSound, UNCHANGED <<config, routes, reloaded, adopted>>
    PROVE  RoutesAreSound'
BY Zenon DEF RoutesAreSound, IdentityIsWritten, TruncationCanBeRetried, GatewayIsNoAuthority,
       StartsWithoutCycle

LEMMA RoutesStep == LifeInv /\ RoutesAreSound /\ [LifecycleNext]_lifeVars => RoutesAreSound'
<1> SUFFICES ASSUME LifeInv, RoutesAreSound, [LifecycleNext]_lifeVars PROVE RoutesAreSound'
  OBVIOUS
<1>1. ASSUME NEW f \in Files, EditFile(f) PROVE RoutesAreSound'
  BY <1>1, RoutesUntouched DEF EditFile
<1>2. ASSUME NEW onUdp \in BOOLEAN, NEW tcp \in BOOLEAN, NEW looped \in BOOLEAN,
             NEW region \in {"China", "Global"}, NEW viaSeeds \in Lookups, NEW viaSystem \in Lookups,
             Start(onUdp, tcp, looped, region, viaSeeds, viaSystem)
      PROVE  RoutesAreSound'
  BY <1>2, StartSound
<1>3. ASSUME NEW r \in Reloaders, Reload(r) PROVE RoutesAreSound'
  <2>1. CASE ReloadSwap(r) BY <2>1, SwapSound
  <2>2. ASSUME NEW from, NEW switch, NEW to, ReloadSwitch(r, from, switch, to)
        PROVE  RoutesAreSound'
    BY <2>2, RoutesUntouched DEF ReloadSwitch
  <2>3. CASE ReloadLoad(r) BY <2>3, RoutesUntouched DEF ReloadLoad
  <2>4. CASE ReloadRefused(r) BY <2>4, RoutesUntouched DEF ReloadRefused, Refuse
  <2>5. CASE ReloadBuild(r) BY <2>5, RoutesUntouched DEF ReloadBuild
  <2>6. CASE ReloadSpawn(r) BY <2>6, RoutesUntouched DEF ReloadSpawn
  <2> QED BY <1>3, <2>1, <2>2, <2>3, <2>4, <2>5, <2>6, Zenon DEF Reload
<1>4. ASSUME NEW local \in jobs, PublishJob(local) PROVE RoutesAreSound'
  BY <1>4, RoutesUntouched DEF PublishJob
<1>5. CASE DatasetTick BY <1>5, RoutesUntouched DEF DatasetTick
<1>6. CASE DatasetBuild BY <1>6, RoutesUntouched DEF DatasetBuild
<1>7. CASE Shutdown BY <1>7, RoutesUntouched DEF Shutdown
<1>8. CASE Exit
  <2>1. config' = NoConfig /\ routes' = {} BY <1>8 DEF Exit
  <2> QED BY <2>1, Zenon DEF RoutesAreSound, IdentityIsWritten, TruncationCanBeRetried,
                      GatewayIsNoAuthority, StartsWithoutCycle
<1>9. CASE UNCHANGED lifeVars BY <1>9, RoutesUntouched DEF lifeVars
<1> QED BY <1>1, <1>2, <1>3, <1>4, <1>5, <1>6, <1>7, <1>8, <1>9, ZenonT(30) DEF LifecycleNext

\* The routes of the running configuration are sound, for every catalog, every list of
\* upstreams that loads and whatever the gateway probe and the lookups answer: encrypted ones
\* authenticate a name that was written, a truncated answer can be retried over TCP, and until
\* the first reload none leads back here or lets the adopted gateway pass for an authority.
THEOREM RoutesSound == LifecycleSpec => []RoutesAreSound
<1>1. LifecycleInit => RoutesAreSound
  BY DEF LifecycleInit, RoutesAreSound, IdentityIsWritten, TruncationCanBeRetried,
         GatewayIsNoAuthority, StartsWithoutCycle
<1> QED
  BY <1>1, RoutesStep, LifeInvariant, PTL DEF LifecycleSpec
=============================================================================
