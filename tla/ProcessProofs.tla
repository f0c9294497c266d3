---------------------------- MODULE ProcessProofs ----------------------------
(***************************************************************************)
(* Proofs about what runs in a process: its fetches, its configuration and *)
(* its database.                                                           *)
(***************************************************************************)
EXTENDS Fetch, Supervisor, Reload, FiniteSetTheorems, TLAPS

-----------------------------------------------------------------------------
(***************************************************************************)
(* Proofs about Fetch, for any number of concurrent fetches, authorities   *)
(* and slots, any settings and any TTL caps: what `Resolver::fetch` may    *)
(* return as proved, unproved, denied or bogus, and that no path through   *)
(* the validation loop keeps a slot.                                       *)
(*                                                                         *)
(* Fetches share nothing but the slots, so the invariant is a statement    *)
(* about one fetch at its step (FetchInv): who has been heard at that      *)
(* step, what the message in hand can be, and, once it is done, which      *)
(* entry goes with its result.                                             *)
(***************************************************************************)

\* Before an answer is in hand nobody has been heard.
Unheard == {"start", "asking", "queued", "validating", "concluding", "fallback"}

\* The steps that only strict validation, or only a direct answer, goes through.
OnlyStrict == {"queued", "validating", "concluding", "fallback"}

\* Two different authorities, one of them independent at least.
Pair(S) == \E a \in Authorities, b \in Independent : a # b /\ S = {a, b}

HeardInv(f) ==
    /\ pc[f] \in Unheard => heard[f] = {} /\ route[f] = Nothing
    /\ pc[f] \in OnlyStrict => Synchronous(f)
    /\ pc[f] = "asking" => ~Synchronous(f)
    /\ pc[f] \in {"checking", "corroborating"} /\ route[f] # Nothing => heard[f] = {route[f]}

\* In strict mode a message that somebody was heard about is the fallback's.
FallbackInv(f) ==
    Synchronous(f) /\ heard[f] # {} =>
        /\ pc[f] \in {"checking", "corroborating", "done"}
        /\ route[f] = Nothing
        /\ msg[f] = Unproved("Positive")
        /\ Pair(heard[f])
        /\ pc[f] = "corroborating" => status[f] = "Indeterminate"

\* A verdict against the data leaves one way on.
CondemnedInv(f) ==
    condemned[f] => \/ pc[f] = "concluding" /\ outcome[f] = "Bogus"
                    \/ pc[f] = "done" /\ result[f] = "DnssecBogus"

InHand(f) == pc[f] \in {"checking", "corroborating"} => msg[f] # Nothing

\* What goes with a success.
StoredInv(f) ==
    /\ result[f] # "None" <=> pc[f] = "done"
    /\ result[f] = "Ok" =>
        /\ stored[f] \in Entries
        /\ stored[f].kind = "NxDomain" /\ stored[f].ttl > PROVISIONAL_NEGATIVE_TTL =>
            stored[f].dnssec = "Secure" \/ Cardinality(heard[f]) = 2
        /\ Synchronous(f) /\ heard[f] # {} =>
            stored[f].kind = "Positive" /\ stored[f].dnssec = "Indeterminate"

FetchInv(f) == HeardInv(f) /\ FallbackInv(f) /\ CondemnedInv(f) /\ InHand(f) /\ StoredInv(f)

\* The types of what FetchInv speaks about.
FetchTypes ==
    /\ dnssec \in Configs
    /\ cd \in [Fetches -> BOOLEAN]
    /\ pc \in [Fetches -> Steps]
    /\ msg \in [Fetches -> Messages \union {Nothing}]
    /\ outcome \in [Fetches -> ValidationOutcome]
    /\ route \in [Fetches -> Authorities \union {Nothing}]
    /\ status \in [Fetches -> Proof]
    /\ stored \in [Fetches -> Entries \union {Nothing}]
    /\ result \in [Fetches -> ResolveError \union {"None", "Ok"}]
    /\ heard \in [Fetches -> SUBSET Authorities]
    /\ condemned \in [Fetches -> BOOLEAN]

FetchesInv == FetchTypes /\ \A f \in Fetches : FetchInv(f)

-----------------------------------------------------------------------------
\* dnssec_status is a proof status, and in strict mode that of the message.
LEMMA StatusType ==
    ASSUME FetchTypes, NEW m \in Messages, NEW ad \in BOOLEAN
    PROVE  /\ dnssec_status(m, ad) \in Proof
           /\ dnssec.mode = "Strict" => dnssec_status(m, ad) = m.proof
BY DEF dnssec_status, Messages, Proof

\* classify calls an answer Bogus only when the message carries that proof.
LEMMA ClassifyType ==
    ASSUME FetchTypes, NEW m \in Messages, NEW observed \in ProofFailure
    PROVE  classify(m, observed) \in ValidationOutcome
<1>1. dnssec_status(m, FALSE) \in Proof
  BY StatusType, Zenon
<1> QED
  BY <1>1, Zenon DEF classify, Proof, ProofFailure, ValidationOutcome

LEMMA PassType ==
    ASSUME FetchTypes, NEW pass \in Passes
    PROVE  pass.msg \in Messages \union {Nothing} /\ pass.outcome \in ValidationOutcome
BY ClassifyType, SMTT(60) DEF Passes, ValidationOutcome

\* The TTL of an entry is a number, and short for an unsigned negative from one source.
LEMMA TtlType ==
    ASSUME NEW kind \in EntryKind, NEW raw \in RawTtls, NEW single \in BOOLEAN
    PROVE  Ttl(kind, raw, single) \in Nat
           /\ (single => Ttl(kind, raw, single) <= PROVISIONAL_NEGATIVE_TTL)
BY FetchAssumption DEF Ttl, Min2

-----------------------------------------------------------------------------
\* A step of f concerns f alone.
Others(f) ==
    /\ dnssec' = dnssec /\ cd' = cd
    /\ \A g \in Fetches \ {f} :
        /\ pc'[g] = pc[g] /\ msg'[g] = msg[g] /\ outcome'[g] = outcome[g]
        /\ route'[g] = route[g] /\ status'[g] = status[g] /\ stored'[g] = stored[g]
        /\ result'[g] = result[g] /\ heard'[g] = heard[g] /\ condemned'[g] = condemned[g]

LEMMA OthersKeep ==
    ASSUME FetchesInv, NEW f \in Fetches, Others(f), NEW g \in Fetches \ {f}
    PROVE  FetchInv(g)'
BY SMTT(60) DEF FetchesInv, Others, FetchInv, HeardInv, FallbackInv, CondemnedInv, InHand, StoredInv,
       Synchronous, Pair

LEMMA StepConcernsItself ==
    ASSUME FetchTypes, NEW f \in Fetches, Step(f)
    PROVE  Others(f)
<1> USE DEF FetchTypes, Others, settings, validation, answer, Goto
<1>1. CASE Begin(f) \/ NoRoute(f) \/ AskFails(f) \/ AcquireSlot(f) \/ ShedFetch(f) \/ NoPair(f)
  BY <1>1, ZenonT(40) DEF Begin, NoRoute, AskFails, AcquireSlot, ShedFetch, NoPair, Fail
<1>2. ASSUME NEW a \in Authorities, NEW kind \in EntryKind, Ask(f, a, kind)
      PROVE  Others(f)
  BY <1>2, ZenonT(40) DEF Ask
<1>3. ASSUME NEW pass \in Passes, Revalidate(f, pass) \/ Validate(f, pass)
      PROVE  Others(f)
  BY <1>3, ZenonT(40) DEF Revalidate, Validate, Observe
<1>4. CASE Conclude(f)
  BY <1>4, ZenonT(40) DEF Conclude, Fail, Continue
<1>5. ASSUME NEW a \in Authorities, NEW b \in Authorities, NEW kind \in EntryKind,
             NEW compatible \in BOOLEAN, Fallback(f, a, b, kind, compatible)
      PROVE  Others(f)
  <2>1. CASE kind = "Positive" /\ compatible
    BY <1>5, <2>1, Zenon DEF Fallback, Continue
  <2>2. CASE ~(kind = "Positive" /\ compatible)
    BY <1>5, <2>2, Zenon DEF Fallback, Fail
  <2> QED BY <2>1, <2>2
<1>6. ASSUME NEW ad \in BOOLEAN, CheckDnssec(f, ad)
      PROVE  Others(f)
  BY <1>6, ZenonT(40) DEF CheckDnssec, Fail, Continue
<1>7. ASSUME NEW raw \in RawTtls, KeepOriginal(f, raw)
      PROVE  Others(f)
  BY <1>7, Zenon DEF KeepOriginal, Store
<1>8. ASSUME NEW b \in Authorities, NEW raw \in RawTtls, Agree(f, b, raw) \/ Contradict(f, b, raw)
      PROVE  Others(f)
  <2>1. CASE Agree(f, b, raw) BY <2>1, Zenon DEF Agree, Store
  <2>2. CASE Contradict(f, b, raw) BY <2>2, Zenon DEF Contradict, Store
  <2> QED BY <1>8, <2>1, <2>2
<1> HIDE DEF FetchTypes, Others, Goto
<1> QED
  BY <1>1, <1>2, <1>3, <1>4, <1>5, <1>6, <1>7, <1>8, Zenon DEF Step

-----------------------------------------------------------------------------
\* The steps before an answer is in hand.
LEMMA EarlySteps ==
    ASSUME FetchesInv, NEW f \in Fetches,
           Begin(f) \/ NoRoute(f) \/ AskFails(f) \/ AcquireSlot(f) \/ ShedFetch(f) \/ NoPair(f)
    PROVE  FetchTypes' /\ FetchInv(f)'
<1> USE DEF FetchesInv, FetchTypes, settings, validation, answer, Goto, Fail
<1>1. FetchTypes'
  BY Zenon DEF Begin, NoRoute, AskFails, AcquireSlot, ShedFetch, NoPair, Steps, ResolveError
<1>2. heard'[f] = {} /\ route'[f] = Nothing /\ result[f] = "None" /\ condemned'[f] = FALSE
  <2>1. pc[f] \in {"start", "asking", "queued", "fallback"} /\ UNCHANGED <<heard, route, condemned>>
    BY ZenonT(30) DEF Begin, NoRoute, AskFails, AcquireSlot, ShedFetch, NoPair
  <2>2. heard[f] = {} /\ route[f] = Nothing
    BY <2>1, ZenonT(30) DEF FetchInv, HeardInv, Unheard
  <2>3. result[f] = "None"
    BY <2>1, ZenonT(30) DEF FetchInv, StoredInv
  <2>4. condemned[f] = FALSE
    BY <2>1, ZenonT(30) DEF FetchInv, CondemnedInv
  <2> QED
    BY <2>1, <2>2, <2>3, <2>4, Zenon
<1>3. CASE Begin(f) \/ AcquireSlot(f)
  <2>1. pc'[f] \in {"asking", "queued", "validating"} /\ result'[f] = "None"
    BY <1>2, <1>3, ZenonT(30) DEF Begin, AcquireSlot, Steps
  <2>2. Synchronous(f)' = Synchronous(f)
    BY <1>3, ZenonT(30) DEF Begin, AcquireSlot, Synchronous
  <2>3. CASE Begin(f)
    <3>1. pc'[f] = IF Synchronous(f) THEN "queued" ELSE "asking"
      BY <2>3, ZenonT(30) DEF Begin
    <3> QED
      BY <1>1, <1>2, <2>1, <2>2, <3>1, ZenonT(30)
      DEF FetchInv, HeardInv, FallbackInv, CondemnedInv, InHand, StoredInv, OnlyStrict
  <2>4. CASE AcquireSlot(f)
    <3>1. Synchronous(f) /\ pc'[f] = "validating"
      BY <2>4, ZenonT(30) DEF AcquireSlot, FetchInv, HeardInv, OnlyStrict
    <3> QED
      BY <1>1, <1>2, <2>1, <2>2, <3>1, ZenonT(30)
      DEF FetchInv, HeardInv, FallbackInv, CondemnedInv, InHand, StoredInv, OnlyStrict
  <2> QED
    BY <1>3, <2>3, <2>4, Zenon
<1>4. CASE NoRoute(f) \/ AskFails(f) \/ ShedFetch(f) \/ NoPair(f)
  <2>1. pc'[f] = "done" /\ result'[f] \in {"NoRoute", "AllFailed", "Overloaded", "ProofIncomplete"}
    BY <1>4, ZenonT(30) DEF NoRoute, AskFails, ShedFetch, NoPair
  <2> QED
    BY <1>1, <1>2, <2>1, ZenonT(30)
    DEF FetchInv, HeardInv, FallbackInv, CondemnedInv, InHand, StoredInv, Unheard, OnlyStrict
<1> QED
  BY <1>1, <1>3, <1>4, Zenon

LEMMA AskStep ==
    ASSUME FetchesInv, NEW f \in Fetches, NEW a \in Authorities, NEW kind \in EntryKind, Ask(f, a, kind)
    PROVE  FetchTypes' /\ FetchInv(f)'
<1> USE DEF FetchesInv, FetchTypes, settings, validation, Goto, Ask
<1>1. Unproved(kind) \in Messages /\ a # Nothing /\ Unproved(kind) # Nothing
  BY FetchAssumption, NothingAssumption, SMTT(60) DEF Unproved, Messages, Proof
<1>2. FetchTypes'
  BY <1>1, Zenon DEF Steps
<1>3. result[f] = "None" /\ condemned[f] = FALSE /\ ~Synchronous(f)
  BY ZenonT(40) DEF FetchInv, HeardInv, CondemnedInv, StoredInv
<1> QED
  BY <1>1, <1>2, <1>3, SMTT(60) DEF FetchInv, HeardInv, FallbackInv, CondemnedInv,
         InHand, StoredInv, Unheard, OnlyStrict, Synchronous

LEMMA ValidationSteps ==
    ASSUME FetchesInv, NEW f \in Fetches, NEW pass \in Passes, Revalidate(f, pass) \/ Validate(f, pass)
    PROVE  FetchTypes' /\ FetchInv(f)'
<1> USE DEF FetchesInv, FetchTypes, settings, answer, Goto, Revalidate, Validate, Observe
<1>1. pass.msg \in Messages \union {Nothing} /\ pass.outcome \in ValidationOutcome
  BY PassType, ZenonT(40)
<1>2. FetchTypes'
  BY <1>1, ZenonT(40) DEF Steps
<1>3. result[f] = "None" /\ condemned[f] = FALSE /\ heard[f] = {} /\ route[f] = Nothing
      /\ Synchronous(f)
  BY ZenonT(40) DEF FetchInv, HeardInv, CondemnedInv, StoredInv, Unheard, OnlyStrict
<1>4. pc'[f] \in {"validating", "concluding"} /\ result'[f] = "None" /\ heard'[f] = {}
      /\ route'[f] = Nothing /\ Synchronous(f)'
  BY <1>3, ZenonT(40) DEF Synchronous
<1>5. condemned'[f] => pc'[f] = "concluding" /\ outcome'[f] = "Bogus"
  BY <1>3, ZenonT(40) DEF is_retryable
<1> QED
  BY <1>2, <1>4, <1>5, Zenon DEF FetchInv, HeardInv, FallbackInv, CondemnedInv,
         InHand, StoredInv, Unheard, OnlyStrict

LEMMA ConcludeStep ==
    ASSUME FetchesInv, NEW f \in Fetches, Conclude(f)
    PROVE  FetchTypes' /\ FetchInv(f)'
<1> USE DEF FetchesInv, FetchTypes, settings, validation, answer, Goto, Conclude, Fail, Continue
<1>1. FetchTypes'
  BY ZenonT(40) DEF Steps, ResolveError
<1>2. result[f] = "None" /\ heard[f] = {} /\ route[f] = Nothing /\ Synchronous(f)
      /\ (condemned[f] => outcome[f] = "Bogus")
  BY Zenon DEF FetchInv, HeardInv, CondemnedInv, StoredInv, Unheard, OnlyStrict
<1>3. Synchronous(f)' /\ heard'[f] = {} /\ route'[f] = Nothing /\ condemned'[f] = condemned[f]
  BY <1>2, ZenonT(40) DEF Synchronous
<1> QED
  BY <1>1, <1>2, <1>3, SMTT(60) DEF FetchInv, HeardInv, FallbackInv, CondemnedInv,
         InHand, StoredInv, Unheard, OnlyStrict

LEMMA FallbackStep ==
    ASSUME FetchesInv, NEW f \in Fetches, NEW a \in Authorities, NEW b \in Authorities,
           NEW kind \in EntryKind, NEW compatible \in BOOLEAN, Fallback(f, a, b, kind, compatible)
    PROVE  FetchTypes' /\ FetchInv(f)'
<1>1. Unproved(kind) \in Messages /\ Unproved(kind) # Nothing /\ {a, b} \in SUBSET Authorities
  BY NothingAssumption, SMTT(60) DEF Unproved, Messages, Proof
<1>2. result[f] = "None" /\ heard[f] = {} /\ route[f] = Nothing /\ Synchronous(f)
      /\ condemned[f] = FALSE
  BY Zenon DEF FetchesInv, FetchTypes, FetchInv, HeardInv, CondemnedInv, StoredInv, Unheard, OnlyStrict, Fallback
<1>3. UNCHANGED <<dnssec, cd, outcome, condemned, route, status, stored>>
      /\ b \in Independent /\ a # b
  BY Zenon DEF Fallback, settings, validation
<1>4. CASE kind = "Positive" /\ compatible
  <2>1. /\ pc' = [pc EXCEPT ![f] = "checking"] /\ result' = result
        /\ msg' = [msg EXCEPT ![f] = Unproved(kind)] /\ heard' = [heard EXCEPT ![f] = {a, b}]
    BY <1>4, ZenonT(40) DEF Fallback, Continue, Goto
  <2>2. FetchTypes'
    BY <1>1, <1>3, <2>1, Zenon DEF FetchesInv, FetchTypes, Steps
  <2>3. Synchronous(f)' /\ pc'[f] = "checking" /\ msg'[f] = Unproved("Positive")
        /\ heard'[f] = {a, b} /\ result'[f] = "None" /\ route'[f] = Nothing
    BY <1>2, <1>3, <1>4, <2>1, Zenon DEF FetchesInv, FetchTypes, Synchronous
  <2>4. FallbackInv(f)'
    BY <1>3, <2>3, Zenon DEF FallbackInv, Pair
  <2> QED
    BY <1>1, <1>2, <1>3, <1>4, <2>2, <2>3, <2>4, Zenon DEF FetchInv, HeardInv, CondemnedInv,
         InHand, StoredInv, Unheard, OnlyStrict
<1>5. CASE ~(kind = "Positive" /\ compatible)
  <2>1. /\ pc' = [pc EXCEPT ![f] = "done"] /\ result' = [result EXCEPT ![f] = "ProofIncomplete"]
        /\ msg' = msg /\ heard' = heard
    BY <1>5, ZenonT(40) DEF Fallback, Fail, Goto
  <2>2. FetchTypes'
    BY <1>3, <2>1, Zenon DEF FetchesInv, FetchTypes, Steps, ResolveError
  <2> QED
    BY <1>2, <1>3, <2>1, <2>2, SMTT(60) DEF FetchesInv, FetchTypes, FetchInv, HeardInv, FallbackInv, CondemnedInv,
         InHand, StoredInv, Unheard, OnlyStrict
<1> QED
  BY <1>4, <1>5

LEMMA CheckStep ==
    ASSUME FetchesInv, NEW f \in Fetches, NEW ad \in BOOLEAN, CheckDnssec(f, ad)
    PROVE  FetchTypes' /\ FetchInv(f)'
<1> DEFINE s == dnssec_status(msg[f], ad)
<1>1. msg[f] \in Messages /\ result[f] = "None" /\ condemned[f] = FALSE
  BY SMTT(60) DEF FetchesInv, FetchTypes, FetchInv, InHand, StoredInv, CondemnedInv, CheckDnssec
<1>2. s \in Proof /\ (dnssec.mode = "Strict" => s = msg[f].proof)
  BY <1>1, StatusType, Zenon DEF FetchesInv
<1> USE DEF FetchesInv, FetchTypes, settings, validation, answer, Goto, CheckDnssec, Fail, Continue
<1> HIDE DEF s
<1>3. /\ status' = [status EXCEPT ![f] = s]
      /\ \/ s = "Bogus" /\ pc' = [pc EXCEPT ![f] = "done"]
                        /\ result' = [result EXCEPT ![f] = "DnssecBogus"]
         \/ s # "Bogus" /\ pc' = [pc EXCEPT ![f] = "corroborating"] /\ result' = result
  BY Zenon DEF s
<1>4. FetchTypes'
  BY <1>2, <1>3, SMTT(60) DEF Steps, ResolveError
<1>5. HeardInv(f)' /\ CondemnedInv(f)' /\ InHand(f)' /\ StoredInv(f)'
  BY <1>1, <1>3, SMTT(60) DEF FetchInv, HeardInv, CondemnedInv, InHand, StoredInv, Unheard,
         OnlyStrict, Synchronous
<1>6. FallbackInv(f)'
  <2> SUFFICES ASSUME Synchronous(f), heard[f] # {}
               PROVE  FallbackInv(f)'
    BY Zenon DEF FallbackInv, Synchronous
  <2>1. msg[f] = Unproved("Positive") /\ Pair(heard[f]) /\ route[f] = Nothing
    BY Zenon DEF FetchInv, FallbackInv
  <2>2. s = "Indeterminate"
    BY <1>2, <2>1, SMTT(60) DEF Synchronous, Unproved
  <2> QED
    BY <1>3, <2>1, <2>2, Zenon DEF FallbackInv, Pair
<1> QED
  BY <1>4, <1>5, <1>6, ZenonT(40) DEF FetchInv

\* Whatever is stored, an unsigned denial that only one authority gave is short-lived.
LEMMA StoreSteps ==
    ASSUME FetchesInv, NEW f \in Fetches, NEW kind \in EntryKind, NEW raw \in RawTtls,
           NEW single \in BOOLEAN, NEW route2 \in Authorities \union {Nothing},
           NEW heard2 \in SUBSET Authorities,
           pc[f] = "corroborating", Store(f, kind, raw, single),
           route' = [route EXCEPT ![f] = route2], heard' = [heard EXCEPT ![f] = heard2],
           status[f] = "Secure" => kind = msg[f].kind,
           kind = "NxDomain" => single \/ status[f] = "Secure" \/ Cardinality(heard2) = 2,
           Synchronous(f) /\ heard2 # {} =>
               kind = "Positive" /\ heard2 = heard[f] /\ route2 = route[f]
    PROVE  FetchTypes' /\ FetchInv(f)'
<1> DEFINE ttl == Ttl(kind, raw, single)
           entry == [kind |-> kind, dnssec |-> status[f], ttl |-> ttl]
<1>1. ttl \in Nat /\ (single => ttl <= PROVISIONAL_NEGATIVE_TTL) /\ PROVISIONAL_NEGATIVE_TTL \in Nat
  BY TtlType, FetchAssumption, Zenon
<1>2. /\ stored' = [stored EXCEPT ![f] = entry] /\ pc' = [pc EXCEPT ![f] = "done"]
      /\ result' = [result EXCEPT ![f] = "Ok"]
      /\ UNCHANGED <<dnssec, cd, outcome, condemned, msg, status>>
  BY Zenon DEF Store, Goto, settings, validation
<1>3. /\ status[f] \in Proof /\ condemned[f] = FALSE
      /\ (Synchronous(f) /\ heard[f] # {} => /\ status[f] = "Indeterminate"
                                             /\ msg[f] = Unproved("Positive")
                                             /\ Pair(heard[f]) /\ route[f] = Nothing)
  BY Zenon DEF FetchesInv, FetchTypes, FetchInv, CondemnedInv, FallbackInv
<1> HIDE DEF ttl
<1>4. entry \in Entries /\ entry.kind = kind /\ entry.dnssec = status[f] /\ entry.ttl = ttl
  BY <1>1, <1>3, Zenon DEF Entries
<1> HIDE DEF entry
<1>5. FetchTypes'
  BY <1>2, <1>4, Zenon DEF FetchesInv, FetchTypes, Steps
<1>6. /\ pc'[f] = "done" /\ result'[f] = "Ok" /\ stored'[f] = entry /\ heard'[f] = heard2
      /\ route'[f] = route2 /\ msg'[f] = msg[f] /\ condemned'[f] = FALSE
      /\ (Synchronous(f)' <=> Synchronous(f))
  BY <1>2, <1>3, Zenon DEF FetchesInv, FetchTypes, Synchronous
<1>7. HeardInv(f)' /\ CondemnedInv(f)' /\ InHand(f)'
  BY <1>6, Zenon DEF HeardInv, CondemnedInv, InHand, Unheard, OnlyStrict
<1>8. FallbackInv(f)'
  BY <1>3, <1>6, Zenon DEF FallbackInv, Pair
<1>9. ~(kind = "NxDomain" /\ ttl > PROVISIONAL_NEGATIVE_TTL /\ single)
  BY <1>1, SMTT(60)
<1>10. StoredInv(f)'
  BY <1>3, <1>4, <1>6, <1>9, Zenon DEF StoredInv
<1> QED
  BY <1>5, <1>7, <1>8, <1>10, Zenon DEF FetchInv

LEMMA TwoDistinct ==
    ASSUME NEW a, NEW b, a # b
    PROVE  Cardinality({a, b}) = 2
<1>1. {a, b} = {a} \union {b} /\ b \notin {a}
  OBVIOUS
<1>2. IsFiniteSet({a}) /\ Cardinality({a}) = 1
  BY FS_Singleton, Zenon
<1> QED
  BY <1>1, <1>2, FS_AddElement

LEMMA CorroborationSteps ==
    ASSUME FetchesInv, NEW f \in Fetches, NEW raw \in RawTtls,
           KeepOriginal(f, raw) \/ \E b \in Authorities : Agree(f, b, raw) \/ Contradict(f, b, raw)
    PROVE  FetchTypes' /\ FetchInv(f)'
<1>1. pc[f] = "corroborating" /\ msg[f] \in Messages /\ msg[f].kind \in EntryKind
  BY Zenon DEF FetchesInv, FetchTypes, FetchInv, InHand, KeepOriginal, Agree, Contradict, SecondOpinion, Messages
<1>2. heard \in [Fetches -> SUBSET Authorities] /\ route \in [Fetches -> Authorities \union {Nothing}]
  BY DEF FetchesInv, FetchTypes
<1>3. Synchronous(f) /\ heard[f] # {} => msg[f].kind = "Positive" /\ route[f] = Nothing
  BY SMTT(60) DEF FetchesInv, FetchInv, FallbackInv, Unproved
<1>4. CASE KeepOriginal(f, raw)
  <2>1. route' = [route EXCEPT ![f] = route[f]] /\ heard' = [heard EXCEPT ![f] = heard[f]]
    BY <1>2, <1>4, Zenon DEF KeepOriginal
  <2>2. Store(f, msg[f].kind, raw, UnsignedNegative(f)) /\ UnsignedNegative(f) \in BOOLEAN
    BY <1>4, Zenon DEF KeepOriginal, UnsignedNegative
  <2>3. msg[f].kind = "NxDomain" => UnsignedNegative(f) \/ status[f] = "Secure"
    BY Zenon DEF UnsignedNegative
  <2>4. route[f] \in Authorities \union {Nothing} /\ heard[f] \in SUBSET Authorities
    BY <1>2
  <2> DEFINE single == UnsignedNegative(f)
             kind == msg[f].kind
  <2> HIDE DEF single, kind
  <2>5. /\ single \in BOOLEAN /\ kind \in EntryKind /\ Store(f, kind, raw, single)
        /\ (kind = "NxDomain" => single \/ status[f] = "Secure")
        /\ kind = msg[f].kind
        /\ (Synchronous(f) /\ heard[f] # {} => kind = "Positive")
    BY <1>1, <1>3, <2>2, <2>3, Zenon DEF single, kind
  <2> QED
    BY <1>1, <2>1, <2>4, <2>5, StoreSteps, ZenonT(40)
<1>5. ASSUME NEW b \in Authorities, Agree(f, b, raw) \/ Contradict(f, b, raw)
      PROVE  FetchTypes' /\ FetchInv(f)'
  <2>1. route[f] # Nothing /\ b # route[f] /\ msg[f].kind = "NxDomain" /\ status[f] # "Secure"
    BY <1>5, Zenon DEF Agree, Contradict, SecondOpinion, UnsignedNegative
  <2>2. heard[f] = {route[f]} /\ ~Synchronous(f)
    <3>1. heard[f] = {route[f]}
      BY <1>1, <2>1, Zenon DEF FetchesInv, FetchInv, HeardInv
    <3> QED
      BY <1>3, <2>1, <3>1, Zenon
  <2>3. heard[f] \union {b} \in SUBSET Authorities /\ Cardinality(heard[f] \union {b}) = 2
    <3>1. heard[f] \union {b} = {route[f], b}
      BY <2>2
    <3>2. Cardinality({route[f], b}) = 2
      BY <2>1, TwoDistinct, Zenon
    <3> QED
      BY <1>2, <3>1, <3>2
  <2>4. CASE Agree(f, b, raw)
    <3>1. /\ Store(f, msg[f].kind, raw, FALSE)
          /\ route' = [route EXCEPT ![f] = route[f]]
          /\ heard' = [heard EXCEPT ![f] = heard[f] \union {b}]
      BY <1>2, <2>4, Zenon DEF Agree
    <3> QED
      BY <1>1, <1>2, <2>2, <2>3, <3>1, StoreSteps, ZenonT(40)
  <2>5. CASE Contradict(f, b, raw)
    <3>1. /\ Store(f, "Positive", raw, FALSE)
          /\ route' = [route EXCEPT ![f] = b]
          /\ heard' = [heard EXCEPT ![f] = {b}]
      BY <2>5, Zenon DEF Contradict
    <3>2. "Positive" \in EntryKind /\ {b} \in SUBSET Authorities
          /\ b \in Authorities \union {Nothing} /\ FALSE \in BOOLEAN
      BY DEF EntryKind
    <3> QED
      BY <1>1, <2>1, <2>2, <3>1, <3>2, StoreSteps, Zenon
  <2> QED
    BY <1>5, <2>4, <2>5
<1> QED
  BY <1>4, <1>5

-----------------------------------------------------------------------------
LEMMA FetchesInvInit == FetchInit => FetchesInv
BY ConfigsAssumption, SMTT(60)
   DEF FetchInit, FetchesInv, FetchTypes, FetchInv, HeardInv, FallbackInv, CondemnedInv, InHand, StoredInv,
       Unheard, OnlyStrict, Steps, Proof, ValidationOutcome

LEMMA FetchesInvStep == FetchesInv /\ [FetchNext]_fetchVars => FetchesInv'
<1> SUFFICES ASSUME FetchesInv, [FetchNext]_fetchVars
             PROVE  FetchesInv'
  OBVIOUS
<1>1. ASSUME NEW f \in Fetches, Step(f)
      PROVE  FetchesInv'
  <2>1. FetchTypes' /\ FetchInv(f)'
    BY <1>1, EarlySteps, AskStep, ValidationSteps, ConcludeStep, FallbackStep, CheckStep,
       CorroborationSteps DEF Step
  <2>2. \A g \in Fetches \ {f} : FetchInv(g)'
    BY <1>1, StepConcernsItself, OthersKeep, ZenonT(30) DEF FetchesInv
  <2> QED
    BY <2>1, <2>2 DEF FetchesInv
<1>2. CASE ProofEnds \/ UNCHANGED fetchVars
  <2>1. UNCHANGED <<dnssec, cd, pc, msg, outcome, route, status, stored, result, heard, condemned>>
    BY <1>2 DEF ProofEnds, fetchVars, settings, validation, answer
  <2> QED
    BY <2>1 DEF FetchesInv, FetchTypes, FetchInv, HeardInv, FallbackInv, CondemnedInv, InHand, StoredInv,
           Synchronous, Pair
<1> QED
  BY <1>1, <1>2 DEF FetchNext

LEMMA FetchInvariant == FetchSpec => []FetchesInv
BY FetchesInvInit, FetchesInvStep, PTL DEF FetchSpec

\* Strict validation fails closed: after a validation nothing of ours disturbed has said
\* Bogus, no second pass and no fallback of `fetch` makes it succeed.
THEOREM FailsClosed == FetchSpec => []BogusFailsClosed
<1>1. FetchesInv => BogusFailsClosed
  BY Zenon DEF FetchesInv, FetchInv, CondemnedInv, StoredInv, BogusFailsClosed
<1> QED
  BY <1>1, FetchInvariant, PTL

\* What strict mode returns without a proof, and not from the validator, is a set of records
\* that two authorities agree on (`unproved_fallback`).
THEOREM UnprovedIsCorroborated == FetchSpec => []UnprovedNeedsTwo
<1>1. ASSUME FetchesInv, NEW f \in Fetches, result[f] = "Ok", Synchronous(f), heard[f] # {}
      PROVE  /\ stored[f].kind = "Positive" /\ stored[f].dnssec = "Indeterminate"
             /\ Cardinality(heard[f]) = 2
             /\ heard[f] \intersect Independent # {}
  <2>1. StoredInv(f) /\ Pair(heard[f])
    BY <1>1, Zenon DEF FetchesInv, FetchInv, FallbackInv
  <2>2. PICK a \in Authorities, b \in Independent : a # b /\ heard[f] = {a, b}
    BY <2>1, Zenon DEF Pair
  <2>3. Cardinality(heard[f]) = 2
    BY <2>2, TwoDistinct, SMTT(60)
  <2> QED
    BY <1>1, <2>1, <2>2, <2>3, Zenon DEF StoredInv
<1>2. FetchesInv => UnprovedNeedsTwo
  BY <1>1 DEF UnprovedNeedsTwo
<1> QED
  BY <1>2, FetchInvariant, PTL

\* No fetch remembers a denial beyond the provisional TTL on the word of one authority,
\* unless it is signed (`corroborate_negative` and the TTL cap after it).
THEOREM DenialsAreCorroborated == FetchSpec => []LongDenialsAreCorroborated
<1>1. FetchesInv => LongDenialsAreCorroborated
  BY ZenonT(40) DEF FetchesInv, FetchInv, StoredInv, LongDenialsAreCorroborated
<1> QED
  BY <1>1, FetchInvariant, PTL

-----------------------------------------------------------------------------
Validating == {f \in Fetches : pc[f] = "validating"}

SlotInv ==
    /\ ValidationSlotsConserved
    /\ slots \in Nat
    /\ attempt \in [Fetches -> 0..2]
    /\ completing \in 0..PROOF_COMPLETION_CONCURRENCY

\* A step takes a slot as it enters the validation loop and returns it as it leaves.
LEMMA SlotMoves ==
    ASSUME FetchTypes, SlotInv, NEW f \in Fetches, Step(f)
    PROVE  \/ slots' = slots /\ Validating' = Validating
           \/ slots > 0 /\ slots' = slots - 1 /\ f \notin Validating
                        /\ Validating' = Validating \union {f}
           \/ slots' = slots + 1 /\ f \in Validating /\ Validating' = Validating \ {f}
<1> USE DEF FetchTypes, Validating, Goto
<1>1. CASE AcquireSlot(f)
  BY <1>1 DEF AcquireSlot, SlotInv
<1>2. ASSUME NEW pass \in Passes, Validate(f, pass)
      PROVE  slots' = slots + 1 /\ f \in Validating /\ Validating' = Validating \ {f}
  BY <1>2 DEF Validate
<1>3. ASSUME NEW pass \in Passes, Revalidate(f, pass)
      PROVE  slots' = slots /\ Validating' = Validating
  BY <1>3 DEF Revalidate
<1>4. CASE Begin(f) \/ NoRoute(f) \/ AskFails(f) \/ ShedFetch(f) \/ NoPair(f)
  BY <1>4, SMTT(60) DEF Begin, NoRoute, AskFails, ShedFetch, NoPair, Fail
<1>5. ASSUME NEW a \in Authorities, NEW kind \in EntryKind, Ask(f, a, kind)
      PROVE  slots' = slots /\ Validating' = Validating
  BY <1>5, Zenon DEF Ask
<1>6. CASE Conclude(f)
  BY <1>6, ZenonT(40) DEF Conclude, Fail, Continue
<1>7. ASSUME NEW a \in Authorities, NEW b \in Authorities, NEW kind \in EntryKind,
             NEW compatible \in BOOLEAN, Fallback(f, a, b, kind, compatible)
      PROVE  slots' = slots /\ Validating' = Validating
  <2>1. pc[f] = "fallback" /\ slots' = slots
    BY <1>7, Zenon DEF Fallback
  <2>2. \E to \in {"checking", "done"} : pc' = [pc EXCEPT ![f] = to]
    BY <1>7, Zenon DEF Fallback, Fail, Continue
  <2> QED
    BY <2>1, <2>2
<1>8. ASSUME NEW ad \in BOOLEAN, CheckDnssec(f, ad)
      PROVE  slots' = slots /\ Validating' = Validating
  BY <1>8, ZenonT(40) DEF CheckDnssec, Fail, Continue
<1>9. ASSUME NEW raw \in RawTtls, KeepOriginal(f, raw)
      PROVE  slots' = slots /\ Validating' = Validating
  BY <1>9, Zenon DEF KeepOriginal, Store
<1>10. ASSUME NEW b \in Authorities, NEW raw \in RawTtls, Agree(f, b, raw) \/ Contradict(f, b, raw)
       PROVE  slots' = slots /\ Validating' = Validating
  <2>1. pc[f] = "corroborating" /\ pc' = [pc EXCEPT ![f] = "done"] /\ slots' = slots
    BY <1>10, Zenon DEF Agree, Contradict, Store, SecondOpinion
  <2> QED
    BY <2>1
<1> HIDE DEF FetchTypes, Validating, Goto
<1> QED
  BY <1>1, <1>2, <1>3, <1>4, <1>5, <1>6, <1>7, <1>8, <1>9, <1>10, Zenon DEF Step

\* The counters a step of a fetch moves stay within their bounds.
LEMMA StepBounds ==
    ASSUME FetchTypes, SlotInv, NEW f \in Fetches, Step(f)
    PROVE  attempt' \in [Fetches -> 0..2] /\ completing' \in 0..PROOF_COMPLETION_CONCURRENCY
<1> USE FetchAssumption DEF SlotInv, validation
<1>1. ASSUME NEW wanted, SpawnProof(wanted)
      PROVE  completing' \in 0..PROOF_COMPLETION_CONCURRENCY
  BY <1>1 DEF SpawnProof
<1>2. CASE AcquireSlot(f)
  BY <1>2 DEF AcquireSlot
<1>3. ASSUME NEW pass \in Passes, Revalidate(f, pass)
      PROVE  attempt' \in [Fetches -> 0..2] /\ completing' = completing
  <2>1. attempt[f] + 1 \in 0..2 /\ attempt' = [attempt EXCEPT ![f] = attempt[f] + 1]
    BY <1>3 DEF Revalidate
  <2> QED
    BY <1>3, <2>1 DEF Revalidate
<1>4. ASSUME NEW pass \in Passes, Validate(f, pass)
      PROVE  attempt' = attempt /\ completing' = completing
  BY <1>4 DEF Validate
<1>5. CASE Begin(f) \/ NoRoute(f) \/ AskFails(f) \/ ShedFetch(f) \/ NoPair(f)
  BY <1>5 DEF Begin, NoRoute, AskFails, ShedFetch, NoPair
<1>6. ASSUME NEW a \in Authorities, NEW kind \in EntryKind, Ask(f, a, kind)
      PROVE  attempt' = attempt /\ completing' = completing
  BY <1>6 DEF Ask
<1>7. CASE Conclude(f)
  BY <1>1, <1>7, Zenon DEF Conclude
<1>8. ASSUME NEW a \in Authorities, NEW b \in Authorities, NEW kind \in EntryKind,
             NEW compatible \in BOOLEAN, Fallback(f, a, b, kind, compatible)
      PROVE  attempt' = attempt /\ completing' \in 0..PROOF_COMPLETION_CONCURRENCY
  BY <1>1, <1>8, Zenon DEF Fallback
<1>9. ASSUME NEW ad \in BOOLEAN, CheckDnssec(f, ad)
      PROVE  attempt' = attempt /\ completing' \in 0..PROOF_COMPLETION_CONCURRENCY
  BY <1>1, <1>9, Zenon DEF CheckDnssec
<1>10. ASSUME NEW b \in Authorities, NEW raw \in RawTtls,
              KeepOriginal(f, raw) \/ Agree(f, b, raw) \/ Contradict(f, b, raw)
       PROVE  attempt' = attempt /\ completing' = completing
  BY <1>10, Zenon DEF KeepOriginal, Agree, Contradict, Store, SecondOpinion
<1>11. ASSUME NEW raw \in RawTtls, KeepOriginal(f, raw)
       PROVE  attempt' = attempt /\ completing' = completing
  BY <1>11, Zenon DEF KeepOriginal, Store
<1> QED
  BY <1>2, <1>3, <1>4, <1>5, <1>6, <1>7, <1>8, <1>9, <1>10, <1>11, Zenon DEF Step

LEMMA SlotInvStep == FetchesInv /\ SlotInv /\ [FetchNext]_fetchVars => SlotInv'
<1> SUFFICES ASSUME FetchesInv, SlotInv, [FetchNext]_fetchVars
             PROVE  SlotInv'
  OBVIOUS
<1>1. /\ IsFiniteSet(Validating) /\ Cardinality(Validating) \in Nat
      /\ slots + Cardinality(Validating) = validation_capacity
      /\ validation_capacity \in Nat /\ PROOF_COMPLETION_CONCURRENCY \in Nat
  BY FetchAssumption, FS_Subset, FS_CardinalityType DEF Validating, SlotInv, ValidationSlotsConserved
<1>2. SlotInv' <=> /\ slots' + Cardinality(Validating') = validation_capacity
                   /\ slots' \in Nat
                   /\ attempt' \in [Fetches -> 0..2]
                   /\ completing' \in 0..PROOF_COMPLETION_CONCURRENCY
  BY DEF SlotInv, ValidationSlotsConserved, Validating
<1>3. ASSUME NEW f \in Fetches, Step(f)
      PROVE  SlotInv'
  <2>1. attempt' \in [Fetches -> 0..2] /\ completing' \in 0..PROOF_COMPLETION_CONCURRENCY
    BY <1>3, StepBounds DEF FetchesInv
  <2>2. CASE slots' = slots /\ Validating' = Validating
    BY <1>1, <1>2, <2>1, <2>2 DEF SlotInv
  <2>3. CASE slots > 0 /\ slots' = slots - 1 /\ f \notin Validating
             /\ Validating' = Validating \union {f}
    <3>1. Cardinality(Validating') = Cardinality(Validating) + 1
      BY <1>1, <2>3, FS_AddElement
    <3>2. slots \in Nat
      BY DEF SlotInv
    <3> QED
      BY <1>1, <1>2, <2>1, <2>3, <3>1, <3>2
  <2>4. CASE slots' = slots + 1 /\ f \in Validating /\ Validating' = Validating \ {f}
    <3>1. Cardinality(Validating') = Cardinality(Validating) - 1
      BY <1>1, <2>4, FS_RemoveElement, ZenonT(30)
    <3>2. slots \in Nat
      BY DEF SlotInv
    <3> QED
      BY <1>1, <1>2, <2>1, <2>4, <3>1, <3>2
  <2> QED
    BY <1>3, <2>2, <2>3, <2>4, SlotMoves DEF FetchesInv
<1>4. CASE ProofEnds \/ UNCHANGED fetchVars
  <2>1. UNCHANGED <<pc, attempt, slots>> /\ completing' \in 0..PROOF_COMPLETION_CONCURRENCY
    BY <1>1, <1>4 DEF ProofEnds, fetchVars, validation, SlotInv
  <2>2. Validating' = Validating
    BY <2>1 DEF Validating
  <2> QED
    BY <1>1, <1>2, <2>1, <2>2 DEF SlotInv
<1> QED
  BY <1>3, <1>4 DEF FetchNext

LEMMA SlotInvInit == FetchInit => SlotInv
<1> SUFFICES ASSUME FetchInit
             PROVE  SlotInv
  OBVIOUS
<1>1. {f \in Fetches : pc[f] = "validating"} = {}
  BY DEF FetchInit
<1>2. Cardinality({f \in Fetches : pc[f] = "validating"}) = 0
  BY <1>1, FS_EmptySet
<1>3. ValidationSlotsConserved /\ slots \in Nat
  BY <1>2, FetchAssumption DEF FetchInit, ValidationSlotsConserved
<1> QED
  BY <1>3, FetchAssumption DEF FetchInit, SlotInv

LEMMA SlotInvariant == FetchSpec => []SlotInv
BY SlotInvInit, SlotInvStep, FetchInvariant, PTL DEF FetchSpec

\* Every permit of `validation_slots` is free or held by a fetch inside the validation loop:
\* no exit of the loop, retry included, leaks or returns one twice.
THEOREM SlotsConserved == FetchSpec => []ValidationSlotsConserved
<1>1. SlotInv => ValidationSlotsConserved
  BY DEF SlotInv
<1> QED
  BY <1>1, SlotInvariant, PTL

\* The state of `fetch` is well formed: at most two passes, and neither semaphore is ever
\* over its capacity.
THEOREM FetchTyped == FetchSpec => []FetchTypeOK
<1>1. FetchesInv /\ SlotInv => FetchTypeOK
  <2> SUFFICES ASSUME FetchesInv, SlotInv
               PROVE  FetchTypeOK
    OBVIOUS
  <2>1. Cardinality({f \in Fetches : pc[f] = "validating"}) \in Nat
    BY FetchAssumption, FS_Subset, FS_CardinalityType
  <2>2. slots \in 0..validation_capacity
    BY <2>1, FetchAssumption DEF SlotInv, ValidationSlotsConserved
  <2> QED
    BY <2>2 DEF FetchesInv, SlotInv, FetchTypes, FetchTypeOK
<1> QED
  BY <1>1, FetchInvariant, SlotInvariant, PTL

-----------------------------------------------------------------------------
(***************************************************************************)
(* Proofs about Reload, for any files with any contents, and about the     *)
(* process around it (Supervisor over Storage).                            *)
(*                                                                         *)
(* A run of reloads of any length leaves the fields of the contract as     *)
(* they were at the start.  restart_required compares a candidate with the *)
(* live configuration, not with the one the process was built from, so the *)
(* argument is a chain: the inductive invariant is that started and live   *)
(* agree on every field of every group (Unmoved).                          *)
(*                                                                         *)
(* The database file changes only at the hands of a store that is opening  *)
(* or open, one at a time (AloneWhileOpening), and that the rows of a table *)
(* move forward rests on the order of the writes still on their way        *)
(* (InOrder): none is older than a row, and no later one older than an     *)
(* earlier one.                                                            *)
(***************************************************************************)

Unmoved ==
    Started => \A l \in UNION RestartGroups :
                    At(Contents[daemon.started], l) = At(Contents[daemon.live], l)

Shape == Started => daemon \in [started : Loadable \cap Buildable, live : Loadable \cap Buildable]

\* A candidate that is not refused agrees with the live configuration on every such field.
LEMMA AcceptedAgrees ==
    ASSUME NEW old, NEW new, restart_required(old, new) = {}
    PROVE  \A l \in UNION RestartGroups : At(old, l) = At(new, l)
  BY DEF restart_required

\* What runs was loaded and built, after any start, reload and stop.
LEMMA ShapeStep == Shape /\ [ReloadNext]_daemon => Shape'
<1> SUFFICES ASSUME Shape, [ReloadNext]_daemon PROVE Shape'
  OBVIOUS
<1> USE DEF Shape, Started
<1>1. ASSUME NEW file \in Files, Start(file) PROVE Shape'
  BY <1>1 DEF Start
<1>2. ASSUME NEW file \in Files, ReloadFile(file) PROVE Shape'
  BY <1>2 DEF ReloadFile
<1>3. CASE Stop
  BY <1>3 DEF Stop
<1>4. CASE UNCHANGED daemon
  BY <1>4
<1> QED
  BY <1>1, <1>2, <1>3, <1>4, ZenonT(30) DEF ReloadNext

\* The live configuration never moves away from the one the process was built from.
LEMMA UnmovedStep == Shape /\ Unmoved /\ [ReloadNext]_daemon => Unmoved'
<1> SUFFICES ASSUME Shape, Unmoved, [ReloadNext]_daemon PROVE Unmoved'
  OBVIOUS
<1>1. ASSUME NEW file \in Files, Start(file) PROVE Unmoved'
  BY <1>1 DEF Start, Unmoved
<1>2. ASSUME NEW file \in Files, ReloadFile(file) PROVE Unmoved'
  <2>1. \A l \in UNION RestartGroups : At(Contents[daemon.live], l) = At(Contents[file], l)
    BY <1>2, AcceptedAgrees DEF ReloadFile
  <2>2. daemon'.started = daemon.started /\ daemon'.live = file /\ Started
    BY <1>2 DEF ReloadFile, Shape, Started
  <2> QED
    BY <2>1, <2>2 DEF Unmoved
<1>3. CASE Stop
  BY <1>3 DEF Stop, Unmoved, Started
<1>4. CASE UNCHANGED daemon
  BY <1>4 DEF Unmoved, Started
<1> QED
  BY <1>1, <1>2, <1>3, <1>4 DEF ReloadNext

\* The groups that hold what the sizes below are read from.
LEMMA SizedGroups ==
    /\ {<<"serve_stale", "enabled">>, <<"serve_stale", "max_stale">>,
        <<"cache", "internal_max_ttl">>} \subseteq UNION RestartGroups
    /\ {<<"prefetch", "hot_set_size">>, <<"prefetch", "transition_table_size">>,
        <<"prefetch", "transition_prediction">>} \subseteq UNION RestartGroups
    /\ <<"probe", "queue_size">> \in UNION RestartGroups
    /\ <<"cloudflare", "candidate_pool_max">> \in UNION RestartGroups
    /\ <<"sampling", "buckets_per_prefix">> \in UNION RestartGroups
<1>1. Fields("serve_stale", {"enabled", "max_stale"}) \cup Fields("cache", {"internal_max_ttl"})
        \in RestartGroups
  BY DEF RestartGroups
<1>2. Fields("prefetch", {"hot_set_size", "transition_table_size", "transition_prediction"})
        \in RestartGroups
  BY DEF RestartGroups
<1>3. Fields("probe", {"queue_size"}) \in RestartGroups
  BY DEF RestartGroups
<1>4. Fields("cloudflare", {"candidate_pool_max"}) \in RestartGroups
  BY DEF RestartGroups
<1>5. Fields("sampling", {"seed", "buckets_per_prefix", "exploit_fraction"}) \in RestartGroups
  BY DEF RestartGroups
<1> QED
  BY <1>1, <1>2, <1>3, <1>4, <1>5 DEF Fields

\* A process built from s runs c: where c passes the checks and has what s has in the
\* fields that only a restart changes, what was sized for s is enough for c.
LEMMA SizesSuffice ==
    ASSUME NEW s, NEW c, from_toml(c),
           \A l \in UNION RestartGroups : At(s, l) = At(c, l)
    PROVE  /\ Retention(s) >= c.cache.internal_max_ttl
           /\ c.serve_stale.enabled =>
                 Retention(s) >= c.cache.internal_max_ttl + c.serve_stale.max_stale
           /\ FAILURE_MAX_TTL_CEILING >= c.cache.failure_max_ttl
           /\ c.prefetch.enabled =>
                 /\ s.prefetch.hot_set_size > 0
                 /\ c.prefetch.transition_prediction => s.prefetch.transition_table_size > 0
           /\ c.probe.enabled => s.probe.queue_size > 0
           /\ c.cloudflare.enabled =>
                 /\ s.cloudflare.candidate_pool_max > 0
                 /\ c.sampling.enabled => s.sampling.buckets_per_prefix \in 1..MAX_SAMPLES
<1>1. /\ s.serve_stale.enabled = c.serve_stale.enabled
      /\ s.serve_stale.max_stale = c.serve_stale.max_stale
      /\ s.cache.internal_max_ttl = c.cache.internal_max_ttl
      /\ s.prefetch.hot_set_size = c.prefetch.hot_set_size
      /\ s.prefetch.transition_table_size = c.prefetch.transition_table_size
      /\ s.probe.queue_size = c.probe.queue_size
      /\ s.cloudflare.candidate_pool_max = c.cloudflare.candidate_pool_max
      /\ s.sampling.buckets_per_prefix = c.sampling.buckets_per_prefix
  BY SizedGroups DEF At
<1>2. validate_cache_and_ttl(c) /\ validate_probe(c) /\ validate_cloudflare(c)
  BY ZenonT(30) DEF from_toml, validate
<1>3. /\ c.cache.internal_max_ttl \in Nat
      /\ c.serve_stale.enabled => c.serve_stale.max_stale \in Nat
      /\ c.cache.failure_max_ttl \in c.cache.failure_min_ttl..300
      /\ validate_prefetch(c.prefetch)
  BY <1>2, SMT DEF validate_cache_and_ttl, validate_serve_stale
<1>4. c.serve_stale.enabled => Retention(s) = c.cache.internal_max_ttl + c.serve_stale.max_stale
  BY <1>1 DEF Retention
<1>5. ~c.serve_stale.enabled => Retention(s) = c.cache.internal_max_ttl
  <2>1. ~c.serve_stale.enabled => Retention(s) = c.cache.internal_max_ttl + 0
    BY <1>1 DEF Retention
  <2>2. c.cache.internal_max_ttl \in Nat
    BY <1>3
  <2> QED
    BY <2>1, <2>2
<1>6. /\ Retention(s) >= c.cache.internal_max_ttl
      /\ c.serve_stale.enabled =>
            Retention(s) >= c.cache.internal_max_ttl + c.serve_stale.max_stale
  <2>1. c.cache.internal_max_ttl \in Nat
    BY <1>3
  <2>2. c.serve_stale.enabled => c.serve_stale.max_stale \in Nat
    BY <1>3
  <2> QED
    BY <1>4, <1>5, <2>1, <2>2, SMT
<1>7. FAILURE_MAX_TTL_CEILING >= c.cache.failure_max_ttl
  BY <1>3, SMT DEF FAILURE_MAX_TTL_CEILING
<1>8. c.prefetch.enabled =>
         /\ s.prefetch.hot_set_size > 0
         /\ c.prefetch.transition_prediction => s.prefetch.transition_table_size > 0
  <2>1. c.prefetch.enabled =>
           /\ c.prefetch.hot_set_size > 0
           /\ c.prefetch.transition_prediction => c.prefetch.transition_table_size > 0
    BY <1>3, Zenon DEF validate_prefetch
  <2> QED
    BY <1>1, <2>1, Zenon
<1>9. c.probe.enabled => s.probe.queue_size > 0
  <2>1. c.probe.enabled => c.probe.queue_size > 0
    BY <1>2, Zenon DEF validate_probe
  <2> QED
    BY <1>1, <2>1, Zenon
<1>10. c.cloudflare.enabled =>
         /\ s.cloudflare.candidate_pool_max > 0
         /\ c.sampling.enabled => s.sampling.buckets_per_prefix \in 1..MAX_SAMPLES
  <2> SUFFICES ASSUME c.cloudflare.enabled
               PROVE  /\ s.cloudflare.candidate_pool_max > 0
                      /\ c.sampling.enabled => s.sampling.buckets_per_prefix \in 1..MAX_SAMPLES
    OBVIOUS
  <2>1. validate_sampling(c.sampling) /\ c.cloudflare.candidate_pool_max \in 1..MAX_POOL
    BY <1>2 DEF validate_cloudflare
  <2>2. c.cloudflare.candidate_pool_max > 0
    BY <2>1, SMT
  <2>3. c.sampling.enabled => c.sampling.buckets_per_prefix \in 1..MAX_SAMPLES
    BY <2>1, Zenon DEF validate_sampling
  <2> QED
    BY <1>1, <2>2, <2>3, Zenon
<1> QED
  BY <1>6, <1>7, <1>8, <1>9, <1>10, ZenonT(30)

-----------------------------------------------------------------------------
\* However often a daemon is reloaded, and whatever the files say, what was built once and
\* is not declared reloadable still has the value of the live configuration.
THEOREM StartedStaysLive == ReloadSpec => []StartedIsLive
<1>1. ReloadInit => Shape /\ Unmoved
  BY DEF ReloadInit, Shape, Unmoved, Started
<1>2. ReadAtStart \ RELOADABLE \subseteq UNION RestartGroups
  BY Classified, ReadIsClassified
<1>3. Unmoved => StartedIsLive
  BY <1>2 DEF Unmoved, StartedIsLive, Effective, Started
<1> QED
  BY <1>1, <1>3, ShapeStep, UnmovedStep, PTL DEF ReloadSpec

\* What runs, and what it was built from, are always files that loaded.
THEOREM OnlySoundFilesRun == ReloadSpec => []ReloadTypeOK
<1>1. ReloadInit => Shape
  BY DEF ReloadInit, Shape, Started
<1>2. Shape => ReloadTypeOK
  BY DEF Shape, ReloadTypeOK
<1> QED
  BY <1>1, <1>2, ShapeStep, PTL DEF ReloadSpec

\* After any number of reloads, what was sized at the start is large enough for what the
\* live configuration turns on, for every configuration the validation accepts.
THEOREM SizesAreEnough == ReloadSpec => []SizedForWhatRuns
<1>1. ReloadInit => Shape /\ Unmoved
  BY DEF ReloadInit, Shape, Unmoved, Started
<1>2. Shape /\ Unmoved => SizedForWhatRuns
  <2> SUFFICES ASSUME Shape, Unmoved, Started PROVE SizedForWhatRuns
    BY ZenonT(30) DEF SizedForWhatRuns
  <2>1. from_toml(Contents[daemon.live])
    BY DEF Shape, Loadable
  <2>2. \A l \in UNION RestartGroups :
            At(Contents[daemon.started], l) = At(Contents[daemon.live], l)
    BY DEF Unmoved
  <2> DEFINE s == Contents[daemon.started]
             c == Contents[daemon.live]
  <2> QED
    BY <2>1, <2>2, SizesSuffice, Zenon DEF SizedForWhatRuns
<1> QED
  BY <1>1, <1>2, ShapeStep, UnmovedStep, PTL DEF ReloadSpec

\* What the validation says of one configuration: its values do not panic their consumers.
LEMMA AcceptedDoesNotPanic ==
    ASSUME NEW c, from_toml(c)
    PROVE  /\ 512 <= c.udp.max_payload
           /\ \A g \in build_upstreams(c).groups :
                 g.scheduler.hedge_min_delay <= g.scheduler.hedge_max_delay
           /\ c.tcp.max_pipelined_queries > 0
           /\ c.storage.enabled => c.storage.queue_size > 0
<1>1. validate_server(c) /\ validate_upstream(c) /\ validate_observability(c)
  BY DEF from_toml, validate
<1>2. validate_udp(c.udp) /\ c.tcp.max_pipelined_queries > 0
  BY <1>1, Zenon DEF validate_server
<1>3. c.udp.max_payload \in 512..MAX_UDP_PAYLOAD
  BY <1>2, Zenon DEF validate_udp
<1>4. 512 <= c.udp.max_payload
  BY <1>3
<1>5. ASSUME NEW g \in build_upstreams(c).groups
      PROVE  g.scheduler.hedge_min_delay <= g.scheduler.hedge_max_delay
  <2>1. validate_scheduler(g.scheduler, c.server.foreground_budget)
    BY <1>1, Zenon DEF validate_upstream
  <2> QED
    BY <2>1, Zenon DEF validate_scheduler
<1>6. c.storage.enabled => c.storage.queue_size > 0
  BY <1>1, Zenon DEF validate_observability
<1> QED
  BY <1>2, <1>4, <1>5, <1>6, ZenonT(30)

\* How long a failure is remembered: doubled with the streak, between the two bounds.
LEMMA FailureTtlBounds ==
    ASSUME NEW c, c.cache.failure_min_ttl \in Nat,
           c.cache.failure_max_ttl \in c.cache.failure_min_ttl..300,
           NEW streak \in 1..8
    PROVE  /\ failure_ttl(c, streak) \in c.cache.failure_min_ttl .. FAILURE_MAX_TTL_CEILING
           /\ failure_ttl(c, streak) <= failure_ttl(c, streak + 1)
<1> DEFINE low == c.cache.failure_min_ttl
           high == c.cache.failure_max_ttl
           Times(k) == IF low * k < high THEN low * k ELSE high
<1>1. low \in Nat /\ high \in Nat /\ low <= high /\ high <= 300
  OBVIOUS
<1>2. 2^1 = 2 /\ 2^2 = 4 /\ 2^3 = 8 /\ 2^4 = 16 /\ 2^5 = 32 /\ 2^6 = 64
  OBVIOUS
<1>3. \A n \in 1..9 : \E k \in {2, 4, 8, 16, 32, 64} :
          /\ failure_ttl(c, n) = Times(k)
          /\ n >= 6 <=> k = 64
          /\ n = 1 => k = 2
          /\ n = 2 => k = 4
          /\ n = 3 => k = 8
          /\ n = 4 => k = 16
          /\ n = 5 => k = 32
  <2>1. ASSUME NEW n \in 1..9, n >= 6 PROVE failure_ttl(c, n) = Times(64)
    BY <2>1, <1>2 DEF failure_ttl
  <2>2. /\ failure_ttl(c, 1) = Times(2) /\ failure_ttl(c, 2) = Times(4)
        /\ failure_ttl(c, 3) = Times(8) /\ failure_ttl(c, 4) = Times(16)
        /\ failure_ttl(c, 5) = Times(32)
    BY <1>2 DEF failure_ttl
  <2> HIDE DEF Times, low, high
  <2>3. ASSUME NEW n \in 1..9, ~(n >= 6) PROVE n \in {1, 2, 3, 4, 5}
    BY <2>3
  <2> QED
    BY <2>1, <2>2, <2>3
<1> HIDE DEF low, high
<1>4. ASSUME NEW j \in {2, 4, 8, 16, 32, 64}, NEW k \in {2, 4, 8, 16, 32, 64}, j <= k
      PROVE  Times(j) \in low..300 /\ Times(j) <= Times(k)
  <2>1. low * j \in Nat /\ low * k \in Nat /\ low <= low * j /\ low * j <= low * k
    BY <1>1, <1>4
  <2> QED
    BY <1>1, <2>1
<1>5. \E j, k \in {2, 4, 8, 16, 32, 64} :
          j <= k /\ failure_ttl(c, streak) = Times(j) /\ failure_ttl(c, streak + 1) = Times(k)
  <2>1. streak \in 1..9 /\ streak + 1 \in 1..9
    OBVIOUS
  <2> HIDE DEF Times
  <2> QED
    BY <1>3, <2>1
<1> QED
  BY <1>4, <1>5 DEF FAILURE_MAX_TTL_CEILING, low

\* What the validation says of one configuration: the documented relations between fields.
LEMMA AcceptedIsDocumented ==
    ASSUME NEW c, from_toml(c)
    PROVE  /\ {c.server.udp_listen, c.server.tcp_listen} # {"none"}
           /\ c.udp.workers_per_socket > 1 => c.udp.reuse_port
           /\ c.serve_stale.enabled => c.serve_stale.client_timeout < c.server.foreground_budget
           /\ \A g \in build_upstreams(c).groups :
                 /\ g.servers # {}
                 /\ \A s \in g.servers :
                       /\ IsEncrypted(s.transport) => s.server_name # "none"
                       /\ s.address \notin {"Documentation", "Benchmarking", "Multicast"}
           /\ c.cloudflare.enabled /\ c.cloudflare.mode = "VerifiedAugment" => c.probe.enabled
           /\ ~c.tls.quic_zero_rtt
           /\ c.ecs.mode = "FixedEgress" => "special" \notin {c.egress.ipv4, c.egress.ipv6}
           /\ c.admin.enabled => c.admin.socket_mode # "other"
<1>1. /\ validate_server(c) /\ validate_cache_and_ttl(c) /\ validate_upstream(c) /\ validate_ecs(c)
      /\ validate_cloudflare(c) /\ validate_observability(c)
  BY ZenonT(30) DEF from_toml, validate
<1>2. {c.server.udp_listen, c.server.tcp_listen} # {"none"} /\ validate_udp(c.udp)
  BY <1>1, Zenon DEF validate_server
<1>3. c.udp.workers_per_socket > 1 => c.udp.reuse_port
  BY <1>2, Zenon DEF validate_udp
<1>4. c.serve_stale.enabled => c.serve_stale.client_timeout < c.server.foreground_budget
  <2>1. validate_serve_stale(c)
    BY <1>1, Zenon DEF validate_cache_and_ttl
  <2> QED
    BY <2>1 DEF validate_serve_stale
<1>5. ASSUME NEW g \in build_upstreams(c).groups
      PROVE  /\ g.servers # {}
             /\ \A s \in g.servers :
                   /\ IsEncrypted(s.transport) => s.server_name # "none"
                   /\ s.address \notin {"Documentation", "Benchmarking", "Multicast"}
  <2>1. /\ \E s \in g.servers : s.enabled
        /\ \A s \in g.servers : validate_upstream_server(s)
    BY <1>1, Zenon DEF validate_upstream
  <2>2. ASSUME NEW s \in g.servers
        PROVE  /\ IsEncrypted(s.transport) => s.server_name # "none"
               /\ s.address \notin {"Documentation", "Benchmarking", "Multicast"}
    <3>1. /\ IsEncrypted(s.transport) => s.server_name \notin {"none", "empty", "address"}
          /\ s.address \in {"global", "unresolved", "Private", "SharedAddressSpace", "Loopback"}
      BY <2>1, Zenon DEF validate_upstream_server
    <3> QED
      BY <3>1
  <2> QED
    BY <2>1, <2>2
<1>6. c.cloudflare.enabled /\ c.cloudflare.mode = "VerifiedAugment" => c.probe.enabled
  BY <1>1, Zenon DEF validate_cloudflare
<1>7. ~c.tls.quic_zero_rtt
  <2>1. ~build_upstreams(c).tls.quic_zero_rtt
    BY <1>1, Zenon DEF validate_upstream
  <2>2. build_upstreams(c).tls = c.tls
    BY DEF build_upstreams
  <2> QED
    BY <2>1, <2>2
<1>8. c.ecs.mode = "FixedEgress" => "special" \notin {c.egress.ipv4, c.egress.ipv6}
  <2>1. c.ecs.mode = "FixedEgress" => {c.egress.ipv4, c.egress.ipv6} \cap {"special", "long"} = {}
    BY <1>1, Zenon DEF validate_ecs
  <2> QED
    BY <2>1, Zenon
<1>9. c.admin.enabled => c.admin.socket_mode # "other"
  BY <1>1, Zenon DEF validate_observability
<1> QED
  BY <1>2, <1>3, <1>4, <1>5, <1>6, <1>7, <1>8, <1>9, ZenonT(30)

\* Whatever configuration a process runs, after any start and any reloads, has passed the
\* validation, and what the validation accepts is sound: its clamps have a range and its channels
\* a place, failures are remembered within their bounds, and the documented relations between
\* fields hold.
THEOREM AcceptedStaysSound == ReloadSpec => []AcceptedIsSound
<1>1. ReloadInit => Shape
  BY DEF ReloadInit, Shape, Started
<1>2. Shape => AcceptedIsSound
  <2> SUFFICES ASSUME Shape, Started PROVE AcceptedIsSound
    BY Zenon DEF AcceptedIsSound, NothingPanics, FailuresRemembered, RunsDocumented
  <2> DEFINE s == Contents[daemon.started]
             c == Contents[daemon.live]
  <2>1. daemon.started \in Loadable /\ daemon.live \in Loadable
    BY DEF Shape
  <2>2. from_toml(s) /\ from_toml(c) /\ c.cache.failure_min_ttl \in Nat
    BY <2>1, ContentsAssumption DEF Loadable
  <2>3. NothingPanics
    BY <2>2, AcceptedDoesNotPanic, Zenon DEF NothingPanics
  <2>4. RunsDocumented
    BY <2>2, AcceptedIsDocumented, Zenon DEF RunsDocumented
  <2>5. c.cache.failure_max_ttl \in c.cache.failure_min_ttl..300
    <3>1. validate_cache_and_ttl(c)
      BY <2>2, Zenon DEF from_toml, validate
    <3> QED
      BY <3>1, Zenon DEF validate_cache_and_ttl
  <2>6. FailuresRemembered
    BY <2>2, <2>5, FailureTtlBounds, Zenon DEF FailuresRemembered
  <2> QED
    BY <2>3, <2>4, <2>6 DEF AcceptedIsSound
<1> QED
  BY <1>1, <1>2, ShapeStep, PTL DEF ReloadSpec

-----------------------------------------------------------------------------
(* The database.                                                           *)

Batches == [table : Tables, version : Nat]

StoreShape ==
    /\ learned \in Nat /\ flusher \in Seq(Tables) /\ writes \in Seq(Batches)
    /\ writer.batch \in Batches \cup {NoBatch}
    /\ writer = [alive |-> writer.alive, batch |-> writer.batch]
    /\ db = [rows |-> db.rows, created |-> db.created, version |-> db.version]
    /\ db.rows \in [Tables -> Nat]

\* Batches are queued and taken in the order of the moments they were exported at, and no
\* table is ahead of a batch that is still to come.
InOrder ==
    /\ \A i \in DOMAIN writes : writes[i].version <= learned
    /\ \A i, j \in DOMAIN writes : i <= j => writes[i].version <= writes[j].version
    /\ \A t \in Tables : db.rows[t] <= learned
    /\ \A t \in Tables, i \in DOMAIN writes : db.rows[t] <= writes[i].version
    /\ writer.batch # NoBatch =>
          /\ writer.batch.version <= learned
          /\ \A t \in Tables : db.rows[t] <= writer.batch.version
          /\ \A i \in DOMAIN writes : writer.batch.version <= writes[i].version

\* A file is put aside in an opening, which no task runs beside.
AloneWhileOpening ==
    /\ main \in {"opening", "down"} => \A t \in Tasks : sup[t] = "unborn" /\ child[t] = "none"
    /\ aside => main = "opening" /\ opening = "check"

StoreInv == StoreShape /\ InOrder
DatabaseInv == StoreInv /\ AloneWhileOpening

LEMMA QueueTypes ==
    ASSUME NEW w \in Seq(Batches)
    PROVE  /\ Len(w) \in Nat /\ DOMAIN w = 1..Len(w)
           /\ \A i \in DOMAIN w : w[i] \in Batches /\ w[i].version \in Nat
<1>1. \A i \in DOMAIN w : w[i] \in Batches
  OBVIOUS
<1>2. \A b \in Batches : b.version \in Nat
  BY DEF Batches
<1> QED
  BY <1>1, <1>2

LEMMA Appended ==
    ASSUME NEW w \in Seq(Batches), NEW b
    PROVE  /\ b \in Batches => Append(w, b) \in Seq(Batches)
           /\ \A i \in DOMAIN Append(w, b) :
                 \/ i \in DOMAIN w /\ Append(w, b)[i] = w[i]
                 \/ i = Len(w) + 1 /\ Append(w, b)[i] = b
OBVIOUS

LEMMA DatabaseStarts == ProcessInit => DatabaseInv
<1> SUFFICES ASSUME ProcessInit PROVE DatabaseInv
  OBVIOUS
<1>1. StorageInit /\ main = "opening" /\ sup = [t \in Tasks |-> "unborn"]
      /\ child = [t \in Tasks |-> "none"]
  BY ZenonT(30) DEF ProcessInit
<1>2. StoreShape
  BY <1>1 DEF StorageInit, StoreShape, NewDatabase, NoWorker
<1>3. InOrder
  BY <1>1 DEF StorageInit, InOrder, NewDatabase, NoWorker
<1>4. AloneWhileOpening
  BY <1>1, ZenonT(30) DEF StorageInit, AloneWhileOpening
<1> QED
  BY <1>2, <1>3, <1>4, ZenonT(30) DEF DatabaseInv, StoreInv

\* The rows of the file are what they were, and the queue and the worker hold nothing new.
LEMMA RowsStay ==
    ASSUME StoreInv, UNCHANGED learned, StoreShape', db'.rows = db.rows,
           writes' = writes \/ writes' = <<>>,
           writer'.batch = writer.batch \/ writer'.batch = NoBatch
    PROVE  StoreInv'
<1>1. DOMAIN writes' \subseteq DOMAIN writes /\ \A i \in DOMAIN writes' : writes'[i] = writes[i]
  OBVIOUS
<1> QED
  BY <1>1, ZenonT(30) DEF StoreInv, InOrder

\* An opening moves no row, or puts the file aside.
LEMMA OpenKeepsStore ==
    ASSUME StoreInv, OpenStep \/ MediumTurns
    PROVE  StoreInv' /\ (aside' => dbfile # "good" /\ opening' = "check")
           /\ (aside' \/ db'.rows = db.rows)
<1>1. StoreKeeps
  BY Zenon DEF OpenStep, CheckFile, CreateTables, DeleteVersion, InsertVersion, Quarantine, GiveUp,
               StatementFails, MediumTurns
<1>2. UNCHANGED <<learned, flusher, writes>>
  BY <1>1 DEF StoreKeeps
<1>3. writer' = writer \/ writer' \in {[alive |-> TRUE, batch |-> NoBatch], NoWorker}
  BY Zenon DEF OpenStep, CheckFile, CreateTables, DeleteVersion, InsertVersion, Quarantine, GiveUp,
               StatementFails, MediumTurns
<1>4. /\ writer'.batch = writer.batch \/ writer'.batch = NoBatch
      /\ writer' = [alive |-> writer'.alive, batch |-> writer'.batch]
      /\ writer'.batch \in Batches \cup {NoBatch}
  BY <1>3 DEF StoreInv, StoreShape, NoWorker
<1>5. CASE dbfile # "good" /\ Quarantine
  <2>1. db' = NewDatabase /\ opening' = "check" /\ aside'
    BY <1>5 DEF Quarantine
  <2>2. db'.rows = [t \in Tables |-> 0] /\ StoreShape'
    BY <1>2, <1>4, <2>1, ZenonT(30) DEF StoreInv, StoreShape, NewDatabase
  <2>3. InOrder'
    <3>1. \A t \in Tables : db'.rows[t] = 0
      BY <2>2, ZenonT(30)
    <3>2. /\ learned' \in Nat /\ \A i \in DOMAIN writes' : writes'[i].version \in Nat
          /\ writer'.batch # NoBatch => writer'.batch.version \in Nat
      <4>1. learned' \in Nat /\ writes' \in Seq(Batches) /\ writer'.batch \in Batches \cup {NoBatch}
        BY <2>2 DEF StoreShape
      <4>2. \A b \in Batches : b.version \in Nat
        BY DEF Batches
      <4> QED
        BY <4>1, <4>2, QueueTypes, ZenonT(30)
    <3> QED
      BY <1>2, <1>4, <3>1, <3>2 DEF StoreInv, InOrder
  <2> QED
    BY <1>5, <2>1, <2>2, <2>3, ZenonT(30) DEF StoreInv
<1>6. ASSUME NEW yes \in {db.created, TRUE}, NEW n \in {db.version, 0, 1},
             db' = [rows |-> db.rows, created |-> yes, version |-> n], ~aside'
      PROVE  StoreInv' /\ ~aside' /\ db'.rows = db.rows
  <2>1. db'.rows = db.rows /\ StoreShape'
    BY <1>2, <1>4, <1>6, ZenonT(30) DEF StoreInv, StoreShape
  <2> QED
    BY <1>2, <1>4, <1>6, <2>1, RowsStay, ZenonT(30)
<1>7. db = [rows |-> db.rows, created |-> db.created, version |-> db.version]
  BY DEF StoreInv, StoreShape
<1>8. CASE ~aside' /\ db' = db
  BY <1>6, <1>7, <1>8, ZenonT(30)
<1>9. CASE CreateTables
  <2>1. db' = [db EXCEPT !.created = TRUE] /\ ~aside'
    BY <1>9 DEF CreateTables
  <2>2. db' = [rows |-> db.rows, created |-> TRUE, version |-> db.version]
    BY <1>7, <2>1, Zenon
  <2> QED
    BY <1>6, <2>1, <2>2, Zenon
<1>10. CASE DeleteVersion \/ InsertVersion
  <2>1. PICK n \in {0, 1} : db' = [db EXCEPT !.version = n] /\ ~aside'
    BY <1>10 DEF DeleteVersion, InsertVersion
  <2>2. db' = [rows |-> db.rows, created |-> db.created, version |-> n]
    BY <1>7, <2>1, ZenonT(30)
  <2> QED
    BY <1>6, <2>1, <2>2, Zenon
<1>11. CASE CheckFile \/ StatementFails \/ MediumTurns
  <2>1. GiveUp => ~aside' /\ db' = db
    BY ZenonT(30) DEF GiveUp
  <2>2. \/ dbfile # "good" /\ Quarantine
        \/ ~aside' /\ db' = db
    BY <1>11, <2>1, SMTT(30) DEF CheckFile, StatementFails, MediumTurns
  <2> QED
    BY <1>5, <1>8, <2>2, ZenonT(30)
<1> QED
  BY <1>9, <1>10, <1>11, Zenon DEF OpenStep

LEMMA WritesKeepStore ==
    ASSUME StoreInv, Receive \/ Apply \/ Learn \/ StartRound \/ Enqueue
    PROVE  StoreInv' /\ ~aside' /\ \A t \in Tables : db'.rows[t] >= db.rows[t]
<1>0. /\ \A i \in DOMAIN writes : writes[i] \in Batches /\ writes[i].version \in Nat
      /\ \A t \in Tables : db.rows[t] \in Nat
      /\ writes \in Seq(Batches) /\ learned \in Nat
  <2>1. writes \in Seq(Batches) /\ learned \in Nat /\ db.rows \in [Tables -> Nat]
    BY DEF StoreInv, StoreShape
  <2> QED
    BY <2>1, QueueTypes, ZenonT(30)
<1>same. db' = db => \A t \in Tables : db'.rows[t] >= db.rows[t]
  BY <1>0
<1>1. CASE Receive
  <2>1. /\ writer.batch = NoBatch /\ writes # <<>> /\ writes' = Tail(writes)
        /\ writer' = [writer EXCEPT !.batch = Head(writes)]
        /\ UNCHANGED <<learned, flusher, db>> /\ ~aside'
    BY <1>1 DEF Receive
  <2>2. writer' = [alive |-> writer.alive, batch |-> writes[1]] /\ 1 \in DOMAIN writes
    <3>1. writer = [alive |-> writer.alive, batch |-> writer.batch]
      BY DEF StoreInv, StoreShape
    <3> QED
      BY <1>0, <2>1, <3>1
  <2>3. /\ writes' \in Seq(Batches)
        /\ \A i \in DOMAIN writes' : i + 1 \in DOMAIN writes /\ writes'[i] = writes[i + 1] /\ i \in Nat
    BY <1>0, <2>1
  <2>4. StoreShape'
    <3>1. /\ flusher' \in Seq(Tables) /\ db' = db /\ learned' = learned /\ db.rows \in [Tables -> Nat]
          /\ db = [rows |-> db.rows, created |-> db.created, version |-> db.version]
      BY <2>1, ZenonT(30) DEF StoreInv, StoreShape
    <3>2. /\ writer'.batch \in Batches \cup {NoBatch}
          /\ writer' = [alive |-> writer'.alive, batch |-> writer'.batch]
      BY <1>0, <2>2
    <3> QED
      BY <1>0, <2>3, <3>1, <3>2, ZenonT(30) DEF StoreShape
  <2>5. InOrder'
    <3>1. writer'.batch = writes[1]
      BY <2>2
    <3> QED
      BY <1>0, <2>1, <2>2, <2>3, <3>1 DEF StoreInv, InOrder
  <2> QED
    BY <1>same, <2>1, <2>4, <2>5, Zenon DEF StoreInv
<1>2. CASE Apply
  <2> DEFINE b == writer.batch
  <2>1. /\ b # NoBatch /\ writer' = [writer EXCEPT !.batch = NoBatch] /\ ~aside'
        /\ UNCHANGED <<learned, flusher, writes>>
    BY <1>2 DEF Apply
  <2>2. /\ b \in Batches /\ b.table \in Tables /\ b.version \in Nat
        /\ writer' = [alive |-> writer.alive, batch |-> NoBatch]
    BY <2>1, ZenonT(30) DEF StoreInv, StoreShape, Batches
  <2>3. CASE UNCHANGED db
    <3>1. StoreShape' /\ writer'.batch = NoBatch
      BY <2>1, <2>2, <2>3, ZenonT(30) DEF StoreInv, StoreShape
    <3> QED
      BY <1>0, <2>1, <2>3, <3>1, RowsStay
  <2>4. CASE db' = [db EXCEPT !.rows[b.table] = b.version]
    <3>1. db' = [rows |-> [db.rows EXCEPT ![b.table] = b.version], created |-> db.created,
                 version |-> db.version]
      <4>1. db = [rows |-> db.rows, created |-> db.created, version |-> db.version]
        BY Zenon DEF StoreInv, StoreShape
      <4> HIDE DEF b
      <4> QED
        BY <2>4, <4>1, ZenonT(30)
    <3>2. /\ db'.rows = [db.rows EXCEPT ![b.table] = b.version]
          /\ db' = [rows |-> db'.rows, created |-> db'.created, version |-> db'.version]
      BY <3>1, ZenonT(30)
    <3>3. db.rows \in [Tables -> Nat]
      BY DEF StoreInv, StoreShape
    <3> HIDE DEF b
    <3>4. db'.rows \in [Tables -> Nat]
      BY <2>2, <3>2, <3>3, ZenonT(30)
    <3>5. \A t \in Tables : db'.rows[t] = IF t = b.table THEN b.version ELSE db.rows[t]
      BY <2>2, <3>2, <3>3
    <3>6. StoreShape'
      BY <2>1, <2>2, <3>2, <3>4, ZenonT(30) DEF StoreInv, StoreShape
    <3>7. /\ b.version <= learned /\ \A t \in Tables : db.rows[t] <= b.version
          /\ \A i \in DOMAIN writes : b.version <= writes[i].version
      BY <2>1 DEF StoreInv, InOrder, b
    <3>8. writer'.batch = NoBatch
      BY <2>2
    <3>9. InOrder'
      BY <1>0, <2>1, <3>5, <3>7, <3>8, ZenonT(30) DEF StoreInv, InOrder
    <3> QED
      <4>1. \A t \in Tables : db'.rows[t] >= db.rows[t]
        BY <1>0, <2>2, <3>5, <3>7
      <4> QED
        BY <2>1, <3>6, <3>9, <4>1, Zenon DEF StoreInv
  <2> QED
    BY <1>2, <2>3, <2>4, ZenonT(30) DEF Apply
<1>3. CASE Learn
  <2>1. learned' = learned + 1 /\ UNCHANGED <<flusher, writes, writer, db>> /\ ~aside'
    BY <1>3, ZenonT(30) DEF Learn
  <2>2. StoreShape'
    BY <1>0, <2>1 DEF StoreInv, StoreShape
  <2>3. writer.batch # NoBatch => writer.batch.version \in Nat
    BY DEF StoreInv, StoreShape, Batches
  <2>4. InOrder'
    <3>1. \A n \in Nat : n <= learned => n <= learned'
      BY <1>0, <2>1
    <3>2. writes' = writes /\ db' = db /\ writer' = writer
      BY <2>1
    <3>3. \A t \in Tables : db.rows[t] \in Nat
      BY <1>0
    <3>4. /\ \A i \in DOMAIN writes : writes[i].version <= learned'
          /\ \A t \in Tables : db.rows[t] <= learned'
      BY <1>0, <3>1, <3>3, Zenon DEF StoreInv, InOrder
    <3>5. writer.batch # NoBatch => writer.batch.version <= learned'
      BY <2>3, <3>1, Zenon DEF StoreInv, InOrder
    <3> QED
      BY <3>2, <3>4, <3>5, Zenon DEF StoreInv, InOrder
  <2> QED
    BY <1>same, <2>1, <2>2, <2>4, Zenon DEF StoreInv
<1>4. CASE StartRound
  <2>1. flusher' = StoreTables /\ UNCHANGED <<learned, writes, writer, db>> /\ ~aside'
    BY <1>4, ZenonT(30) DEF StartRound
  <2>2. StoreShape'
    BY <1>0, <2>1, StorageAssumption, ZenonT(30) DEF StoreInv, StoreShape
  <2> QED
    BY <1>0, <2>1, <2>2, RowsStay
<1>5. CASE Enqueue
  <2> DEFINE new == Batch(Head(flusher))
  <2>1. /\ flusher # <<>> /\ flusher' = Tail(flusher) /\ UNCHANGED <<learned, writer, db>> /\ ~aside'
        /\ writes' = writes \/ writes' = Append(writes, new)
    BY <1>5, Zenon DEF Enqueue
  <2>2. flusher \in Seq(Tables)
    BY ZenonT(30) DEF StoreInv, StoreShape
  <2>3. new \in Batches /\ new.version = learned /\ flusher' \in Seq(Tables)
    BY <1>0, <2>1, <2>2 DEF Batch, Batches
  <2> HIDE DEF new
  <2>4. StoreShape'
    <3>1. writes' \in Seq(Batches)
      <4>1. writes \in Seq(Batches) /\ new \in Batches
        BY <1>0, <2>3, Zenon
      <4>2. Append(writes, new) \in Seq(Batches)
        BY <4>1, Appended, ZenonT(30)
      <4> QED
        BY <2>1, <4>1, <4>2, Zenon
    <3> QED
      BY <2>1, <2>3, <3>1, ZenonT(30) DEF StoreInv, StoreShape
  <2>5. CASE writes' = writes
    <3>1. db'.rows = db.rows /\ writer'.batch = writer.batch
      BY <2>1, Zenon
    <3> QED
      BY <1>same, <2>1, <2>4, <2>5, <3>1, RowsStay, Zenon
  <2>6. CASE writes' = Append(writes, new)
    <3>1. \A i \in DOMAIN writes' : \/ i \in DOMAIN writes /\ writes'[i] = writes[i]
                                    \/ i = Len(writes) + 1 /\ writes'[i] = new
      BY <1>0, <2>6, Appended, Zenon
    <3>2. \A i \in DOMAIN writes : i <= Len(writes) /\ i \in Nat /\ Len(writes) \in Nat
      BY <1>0, QueueTypes
    <3>3. Len(writes) \in Nat
      BY <1>0, QueueTypes, Zenon
    <3>4. InOrder'
      <4>1. learned' = learned /\ db' = db /\ writer' = writer
        BY <2>1
      <4>2. \A i, j \in DOMAIN writes' : i <= j => writes'[i].version <= writes'[j].version
        <5> TAKE i, j \in DOMAIN writes'
        <5> HAVE i <= j
        <5>1. CASE j \in DOMAIN writes /\ writes'[j] = writes[j]
          <6>1. i \in DOMAIN writes /\ writes'[i] = writes[i]
            BY <3>1, <3>2, <3>3, <5>1
          <6> QED
            BY <5>1, <6>1 DEF StoreInv, InOrder
        <5>2. CASE writes'[j] = new
          <6>1. CASE writes'[i] = new
            <7>1. \A n \in Nat : n <= n
              OBVIOUS
            <7> QED
              BY <1>0, <2>3, <5>2, <6>1, <7>1, Zenon
          <6>2. CASE i \in DOMAIN writes /\ writes'[i] = writes[i]
            BY <2>3, <5>2, <6>2, ZenonT(30) DEF StoreInv, InOrder
          <6> QED
            BY <3>1, <6>1, <6>2
        <5> QED
          BY <3>1, <5>1, <5>2
      <4>3. \A i \in DOMAIN writes' :
              /\ writes'[i].version <= learned /\ \A t \in Tables : db.rows[t] <= writes'[i].version
              /\ writer.batch # NoBatch => writer.batch.version <= writes'[i].version
        <5> TAKE i \in DOMAIN writes'
        <5>1. CASE i \in DOMAIN writes /\ writes'[i] = writes[i]
          BY <5>1, ZenonT(30) DEF StoreInv, InOrder
        <5>2. CASE writes'[i] = new
          BY <1>0, <2>3, <5>2 DEF StoreInv, InOrder
        <5> QED
          BY <3>1, <5>1, <5>2, ZenonT(30)
      <4> QED
        BY <4>1, <4>2, <4>3 DEF StoreInv, InOrder
    <3> QED
      BY <1>same, <2>1, <2>4, <3>4, Zenon DEF StoreInv
  <2> QED
    BY <2>1, <2>5, <2>6
<1> QED
  BY <1>1, <1>2, <1>3, <1>4, <1>5, ZenonT(30)

\* What a step of the process does to the file: it moves no row back, unless it puts the file
\* aside, and it puts aside only what it cannot read.
Forward == aside' \/ \A t \in Tables : db'.rows[t] >= db.rows[t]
FileRespected == (aside' => dbfile # "good") /\ Forward

\* Steps of the supervisors and of main, which leave the database alone.
LEMMA StoreStays ==
    ASSUME DatabaseInv, UNCHANGED storeVars, ~aside, AloneWhileOpening'
    PROVE  DatabaseInv' /\ FileRespected
<1>1. UNCHANGED <<learned, flusher, writes, writer, opening, db, dbfile, aside>>
  BY ZenonT(30) DEF storeVars
<1>2. StoreShape'
  BY <1>1 DEF DatabaseInv, StoreInv, StoreShape
<1>3. StoreInv'
  BY <1>1, <1>2, RowsStay, ZenonT(30) DEF DatabaseInv
<1>4. \A t \in Tables : db.rows[t] \in Nat
  BY DEF DatabaseInv, StoreInv, StoreShape
<1> QED
  BY <1>1, <1>3, <1>4 DEF DatabaseInv, FileRespected, Forward

\* The process goes down or starts: what was in memory is gone, the file is as it was.
LEMMA StoreRestarts ==
    ASSUME DatabaseInv, StorageLost \/ StorageStarts, AloneWhileOpening'
    PROVE  DatabaseInv' /\ FileRespected
<1>1. /\ writes' = <<>> /\ flusher' = <<>> /\ writer' = NoWorker /\ aside' = FALSE
      /\ UNCHANGED <<learned, db, dbfile>>
  BY DEF StorageLost, StorageStarts
<1>2. StoreShape' /\ writer'.batch = NoBatch
  BY <1>1 DEF DatabaseInv, StoreInv, StoreShape, NoWorker
<1>3. StoreInv'
  BY <1>1, <1>2, RowsStay, ZenonT(30) DEF DatabaseInv
<1>4. \A t \in Tables : db.rows[t] \in Nat
  BY DEF DatabaseInv, StoreInv, StoreShape
<1> QED
  BY <1>1, <1>3, <1>4 DEF DatabaseInv, FileRespected, Forward

\* A step of a supervisor or of its task finds the process past its opening.
LEMMA TasksStepLater ==
    ASSUME DatabaseInv, NEW t \in Tasks,
           \/ SuperviseStep(t) \/ ChildOverdue(t)
           \/ TaskReturns(t) \/ TaskPanics(t) \/ TaskDropped(t)
    PROVE  main \notin {"opening", "down"} /\ ~aside /\ UNCHANGED <<main, storeVars>>
<1>1. sup[t] # "unborn" \/ child[t] # "none"
  BY DEF SuperviseStep, CheckCancelled, SpawnTask, JoinChild, AbortChild, ChildGone, BackoffEnds,
         ChildOverdue, TaskReturns, TaskPanics, TaskDropped
<1>2. SupKeeps
  BY Zenon DEF SuperviseStep, CheckCancelled, SpawnTask, JoinChild, AbortChild, ChildGone, BackoffEnds,
         ChildOverdue, TaskReturns, TaskPanics, TaskDropped
<1>3. UNCHANGED <<main, storeVars>>
  BY <1>2, ZenonT(30) DEF SupKeeps
<1>4. main \notin {"opening", "down"} /\ ~aside
  BY <1>1 DEF DatabaseInv, AloneWhileOpening
<1> QED
  BY <1>3, <1>4, ZenonT(30)

LEMMA DatabaseSteps ==
    ASSUME DatabaseInv, ProcessNext
    PROVE  DatabaseInv' /\ FileRespected
<1>1. ASSUME NEW t \in Tasks,
             \/ SuperviseStep(t) \/ ChildOverdue(t)
             \/ TaskReturns(t) \/ TaskPanics(t) \/ TaskDropped(t)
      PROVE  DatabaseInv' /\ FileRespected
  <2>1. main \notin {"opening", "down"} /\ ~aside /\ UNCHANGED <<main, storeVars>>
    BY <1>1, TasksStepLater
  <2>2. AloneWhileOpening'
    BY <2>1, Zenon DEF AloneWhileOpening, storeVars
  <2> QED
    BY <2>1, <2>2, StoreStays
<1>2. CASE SpawnBackground \/ BeginShutdown \/ JoinedAll \/ JoinDeadline \/ Flush
           \/ DropRuntime
  <2>1. UNCHANGED storeVars /\ main' \notin {"opening", "down"} /\ (main # "opening" \/ opening = "no")
    BY <1>2, ZenonT(30) DEF SpawnBackground, BeginShutdown, JoinedAll, JoinDeadline, Flush,
                             DropRuntime, Up
  <2>2. ~aside
    BY <2>1, ZenonT(30) DEF DatabaseInv, AloneWhileOpening
  <2>3. AloneWhileOpening'
    BY <2>1, <2>2 DEF AloneWhileOpening, storeVars
  <2> QED
    BY <2>1, <2>2, <2>3, StoreStays
<1>3. CASE Exit \/ Kill
  <2>1. /\ main' = "down" /\ StorageLost
        /\ sup' = [t \in Tasks |-> "unborn"] /\ child' = [t \in Tasks |-> "none"]
    BY <1>3 DEF Exit, Kill
  <2>2. AloneWhileOpening'
    BY <2>1, ZenonT(30) DEF AloneWhileOpening, StorageLost
  <2> QED
    BY <2>1, <2>2, StoreRestarts
<1>4. CASE WhileDown
  <2>1. /\ main = "down" /\ UNCHANGED <<main, sup, child, learned, flusher, writes, writer, db>>
        /\ aside' = FALSE
    BY <1>4, ZenonT(30) DEF WhileDown, FileChanges, superVars
  <2>2. StoreShape'
    BY <2>1 DEF DatabaseInv, StoreInv, StoreShape
  <2>3. StoreInv'
    BY <2>1, <2>2, RowsStay, ZenonT(30) DEF DatabaseInv
  <2>4. \A t \in Tables : db.rows[t] \in Nat
    BY Zenon DEF DatabaseInv, StoreInv, StoreShape
  <2>5. AloneWhileOpening'
    BY <2>1 DEF DatabaseInv, AloneWhileOpening
  <2> QED
    BY <2>1, <2>3, <2>4, <2>5 DEF DatabaseInv, FileRespected, Forward
<1>5. CASE StartAgain
  <2>1. main' = "opening" /\ StorageStarts /\ UNCHANGED <<sup, child>> /\ main = "down"
    BY <1>5 DEF StartAgain
  <2>2. AloneWhileOpening'
    BY <2>1 DEF DatabaseInv, AloneWhileOpening, StorageStarts
  <2> QED
    BY <2>1, <2>2, StoreRestarts
<1>6. CASE Storing
  <2>1. UNCHANGED <<main, sup, child>>
    BY <1>6 DEF Storing, superVars
  <2>2. CASE main = "opening" /\ (OpenStep \/ MediumTurns)
    <3>1. StoreInv' /\ (aside' => dbfile # "good" /\ opening' = "check") /\ (aside' \/ db'.rows = db.rows)
      BY <2>2, OpenKeepsStore, ZenonT(30) DEF DatabaseInv
    <3>2. AloneWhileOpening'
      BY <2>1, <2>2, <3>1, ZenonT(30) DEF DatabaseInv, AloneWhileOpening
    <3>3. \A t \in Tables : db.rows[t] \in Nat
      BY DEF DatabaseInv, StoreInv, StoreShape
    <3> QED
      BY <3>1, <3>2, <3>3 DEF DatabaseInv, FileRespected, Forward
  <2>3. CASE Receive \/ Apply \/ Learn \/ StartRound \/ Enqueue
    <3>1. StoreInv' /\ ~aside' /\ \A t \in Tables : db'.rows[t] >= db.rows[t]
      BY <2>3, WritesKeepStore, ZenonT(30) DEF DatabaseInv
    <3>2. AloneWhileOpening'
      BY <2>1, <3>1 DEF DatabaseInv, AloneWhileOpening
    <3> QED
      BY <3>1, <3>2, ZenonT(30) DEF DatabaseInv, FileRespected, Forward
  <2> QED
    BY <1>6, <2>2, <2>3 DEF Storing
<1> QED
  BY <1>1, <1>2, <1>3, <1>4, <1>5, <1>6, Zenon DEF ProcessNext

LEMMA DatabaseInvariant == ProcessSpec => []DatabaseInv
<1>1. ASSUME DatabaseInv, [ProcessNext]_processVars PROVE DatabaseInv'
  <2>1. CASE UNCHANGED processVars
    <3>1. UNCHANGED <<learned, flusher, writes, writer, opening, db, aside, main, sup, child>>
      BY <2>1, ZenonT(30) DEF processVars, superVars, storeVars
    <3>2. StoreShape'
      BY <1>1, <3>1 DEF DatabaseInv, StoreInv, StoreShape
    <3>3. StoreInv'
      BY <1>1, <3>1, <3>2, RowsStay, ZenonT(30) DEF DatabaseInv
    <3>4. AloneWhileOpening'
      BY <1>1, <3>1 DEF DatabaseInv, AloneWhileOpening
    <3> QED
      BY <3>3, <3>4 DEF DatabaseInv
  <2> QED
    BY <1>1, <2>1, DatabaseSteps, ZenonT(30)
<1> QED
  BY <1>1, DatabaseStarts, PTL DEF ProcessSpec

\* What an opening relies on when it skips the migrations: a version row is written after the
\* tables it stands for, and no worker runs while the file is being opened.
Whole ==
    /\ opening \in {"delete", "insert"} \/ db.version # 0 \/ writer.alive => db.created
    /\ opening # "no" => ~writer.alive

LEMMA OpenKeepsWhole ==
    ASSUME StoreShape, Whole, OpenStep \/ MediumTurns
    PROVE  Whole'
<1>1. db = [rows |-> db.rows, created |-> db.created, version |-> db.version]
  BY Zenon DEF StoreShape
<1>2. ~writer.alive
  <2>1. opening # "no"
    BY SMTT(30) DEF OpenStep, CheckFile, CreateTables, DeleteVersion, InsertVersion, StatementFails,
                    MediumTurns
  <2> QED
    BY <2>1, Zenon DEF Whole
<1>3. CASE Quarantine
  <2>1. db' = NewDatabase /\ opening' = "check" /\ writer' = writer
    BY <1>3, Zenon DEF Quarantine
  <2>2. db'.version = 0
    BY <2>1, Zenon DEF NewDatabase
  <2> QED
    BY <1>2, <2>1, <2>2 DEF Whole
<1>4. CASE GiveUp
  BY <1>4 DEF GiveUp, Whole
<1>5. CASE CheckFile
  <2>1. CASE /\ opening' = (IF db.version = 0 THEN "create" ELSE "delete")
             /\ UNCHANGED <<writer, retrying, db, dbfile>>
    BY <1>2, <2>1 DEF Whole
  <2> QED
    BY <1>3, <1>4, <1>5, <2>1, Zenon DEF CheckFile
<1>6. CASE CreateTables
  <2>1. opening' = "delete" /\ db' = [db EXCEPT !.created = TRUE] /\ writer' = writer
    BY <1>6, Zenon DEF CreateTables
  <2>2. db'.created
    BY <1>1, <2>1
  <2> QED
    BY <1>2, <2>1, <2>2 DEF Whole
<1>7. CASE DeleteVersion
  <2>1. db.created /\ opening' = "insert" /\ db' = [db EXCEPT !.version = 0] /\ writer' = writer
    BY <1>7 DEF DeleteVersion, Whole
  <2>2. db'.created
    BY <1>1, <2>1
  <2> QED
    BY <1>2, <2>1, <2>2 DEF Whole
<1>8. CASE InsertVersion
  <2>1. db.created /\ opening' = "no" /\ db' = [db EXCEPT !.version = 1]
    BY <1>8 DEF InsertVersion, Whole
  <2>2. db'.created
    BY <1>1, <2>1
  <2> QED
    BY <2>1, <2>2 DEF Whole
<1>9. CASE MediumTurns
  BY <1>9 DEF MediumTurns, Whole
<1> QED
  BY <1>3, <1>4, <1>5, <1>6, <1>7, <1>8, <1>9, Zenon DEF OpenStep, StatementFails

LEMMA WritesKeepWhole ==
    ASSUME StoreShape, Whole, Receive \/ Apply \/ Learn \/ StartRound \/ Enqueue
    PROVE  Whole'
<1>1. /\ db = [rows |-> db.rows, created |-> db.created, version |-> db.version]
      /\ writer = [alive |-> writer.alive, batch |-> writer.batch]
  BY Zenon DEF StoreShape
<1>2. opening' = opening
  BY Zenon DEF Receive, Apply, Learn, StartRound, Enqueue
<1>3. writer' = writer \/ \E b : writer' = [writer EXCEPT !.batch = b]
  BY Zenon DEF Receive, Apply, Learn, StartRound, Enqueue
<1>4. db' = db \/ \E t, n : db' = [db EXCEPT !.rows[t] = n]
  BY Zenon DEF Receive, Apply, Learn, StartRound, Enqueue
<1>5. writer'.alive = writer.alive
  BY <1>1, <1>3
<1>6. db'.created = db.created /\ db'.version = db.version
  BY <1>1, <1>4
<1> QED
  BY <1>2, <1>5, <1>6, Zenon DEF Whole

LEMMA WholeSteps ==
    ASSUME DatabaseInv, Whole, ProcessNext
    PROVE  Whole'
<1>1. StoreShape
  BY Zenon DEF DatabaseInv, StoreInv
<1>2. CASE UNCHANGED <<opening, writer, db>>
  BY <1>2, Zenon DEF Whole
<1>3. CASE UNCHANGED storeVars
  <2>1. UNCHANGED <<opening, writer, db>>
    BY <1>3, ZenonT(30) DEF storeVars
  <2> QED
    BY <1>2, <2>1
<1>4. CASE \E t \in Tasks : \/ SuperviseStep(t) \/ ChildOverdue(t)
                            \/ TaskReturns(t) \/ TaskPanics(t) \/ TaskDropped(t)
  <2>1. UNCHANGED storeVars
    BY <1>4, TasksStepLater, Zenon
  <2> QED
    BY <1>3, <2>1
<1>5. CASE \/ SpawnBackground \/ BeginShutdown \/ JoinedAll \/ JoinDeadline \/ Flush \/ DropRuntime
  <2>1. UNCHANGED storeVars
    BY <1>5, ZenonT(30) DEF SpawnBackground, BeginShutdown, JoinedAll, JoinDeadline, Flush, DropRuntime
  <2> QED
    BY <1>3, <2>1
<1>6. CASE Exit \/ Kill \/ StartAgain
  <2>1. writer' = NoWorker /\ db' = db /\ opening' \in {"no", "check"}
    BY <1>6, SMTT(30) DEF Exit, Kill, StartAgain, StorageLost, StorageStarts
  <2>2. ~writer'.alive
    BY <2>1 DEF NoWorker
  <2> QED
    BY <2>1, <2>2 DEF Whole
<1>7. CASE WhileDown
  <2>1. UNCHANGED <<opening, writer, db>>
    BY <1>7, ZenonT(30) DEF WhileDown, FileChanges
  <2> QED
    BY <1>2, <2>1
<1>8. CASE Storing
  BY <1>1, <1>8, OpenKeepsWhole, WritesKeepWhole, ZenonT(30) DEF Storing
<1> QED
  BY <1>4, <1>5, <1>6, <1>7, <1>8, Zenon DEF ProcessNext

LEMMA WholeInvariant == ProcessSpec => []Whole
<1>1. ProcessInit => Whole
  <2> SUFFICES ASSUME ProcessInit PROVE Whole
    OBVIOUS
  <2>1. StorageInit
    BY ZenonT(30) DEF ProcessInit
  <2>2. db.version = 0 /\ ~writer.alive /\ opening = "check"
    BY <2>1 DEF StorageInit, NewDatabase, NoWorker
  <2> QED
    BY <2>2 DEF Whole
<1>2. ASSUME DatabaseInv, Whole, [ProcessNext]_processVars PROVE Whole'
  <2>1. CASE UNCHANGED processVars
    <3>1. UNCHANGED <<opening, writer, db>>
      BY <2>1, ZenonT(30) DEF processVars, storeVars
    <3> QED
      BY <1>2, <3>1, Zenon DEF Whole
  <2> QED
    BY <1>2, <2>1, WholeSteps, Zenon
<1> QED
  BY <1>1, <1>2, DatabaseInvariant, PTL DEF ProcessSpec

\* Whatever statement of an opening the process is killed in or the medium refuses, and whatever
\* happens to the file while the process is down, a sound file on a medium that takes its
\* statements is never put aside, and a store that is open has its tables (try_open, migrate).
THEOREM OpeningsAreHealed == ProcessSpec => OpeningsHeal
<1>1. ASSUME DatabaseInv, Whole', [ProcessNext]_processVars
      PROVE  [(aside' => dbfile # "good") /\ (writer'.alive => db'.created)]_processVars
  <2>1. writer'.alive => db'.created
    BY <1>1, Zenon DEF Whole
  <2> QED
    BY <1>1, <2>1, DatabaseSteps, Zenon DEF FileRespected
<1> QED
  BY <1>1, DatabaseInvariant, WholeInvariant, PTL DEF ProcessSpec, OpeningsHeal

\* Whichever batches are dropped, refused or lost with a killed process, no table of the file
\* goes back to an earlier moment (run_persistence, the worker's queue, schema::apply).
THEOREM PersistenceForward == ProcessSpec => PersistedMovesForward
<1>1. ASSUME DatabaseInv, [ProcessNext]_processVars
      PROVE  [aside' \/ \A t \in Tables : db'.rows[t] >= db.rows[t]]_processVars
  BY <1>1, DatabaseSteps DEF FileRespected, Forward
<1> QED
  BY <1>1, DatabaseInvariant, PTL DEF ProcessSpec, PersistedMovesForward
=============================================================================
