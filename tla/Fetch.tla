-------------------------------- MODULE Fetch --------------------------------
(***************************************************************************)
(* `Resolver::fetch` of src/dns/resolver.rs between the flight and the     *)
(* cache: strict validation with its retry, the unproved fallback, the     *)
(* DNSSEC check (src/policy/dnssec.rs), the corroboration of an unsigned   *)
(* NXDOMAIN, and the TTL an answer is stored with.  Concurrent fetches     *)
(* share the validation slots and the proof-completion slots.              *)
(*                                                                         *)
(* A message is what the code tells apart: what it says, and the weakest   *)
(* proof among its records.  Time is an outcome: each wait may run out,    *)
(* whatever the earlier waits took, as it may for a background refresh,    *)
(* which starts a new budget at each of them.                              *)
(***************************************************************************)
EXTENDS Naturals, FiniteSets

CONSTANTS
    Fetches,                        \* concurrent fetches
    Authorities,                    \* the resolver authorities of the group
    Independent,                    \* those that are not a local forwarder
    Configs,                        \* the DNSSEC settings a resolver may run with
    validation_capacity,            \* permits of validation_slots
    PROOF_COMPLETION_CONCURRENCY,   \* permits of proof_completion_slots
    internal_max_ttl,
    negative_max_ttl,
    PROVISIONAL_NEGATIVE_TTL,
    RawTtls,                        \* the TTLs upstream answers carry
    Nothing                         \* no message, no route

ASSUME FetchAssumption ==
    /\ IsFiniteSet(Fetches)
    /\ IsFiniteSet(Authorities)
    /\ Independent \subseteq Authorities
    /\ validation_capacity \in Nat \ {0}
    /\ PROOF_COMPLETION_CONCURRENCY \in Nat
    /\ internal_max_ttl \in Nat
    /\ negative_max_ttl \in Nat
    /\ PROVISIONAL_NEGATIVE_TTL \in Nat
    /\ RawTtls \subseteq Nat
    /\ Nothing \notin Authorities

DnssecMode == {"Off", "Background", "Strict"}
DnssecSettings == [mode : DnssecMode, corroborate_negative : BOOLEAN, trust_upstream_ad : BOOLEAN]
ASSUME ConfigsAssumption == Configs \subseteq DnssecSettings

Proof == {"Indeterminate", "Bogus", "Insecure", "Secure"}
ProofFailure == {"None", "Deadline", "Transport", "Refused"}
ValidationOutcome == {"Secure", "ProvenInsecure", "Bogus", "IncompleteProof",
                      "TransportFailure", "Timeout", "Indeterminate"}

\* Records, NOERROR without data, NXDOMAIN.
EntryKind == {"Positive", "NoData", "NxDomain"}
Messages == [kind : EntryKind, proof : Proof]

\* An answer straight from an upstream has been validated by nobody.
Unproved(kind) == [kind |-> kind, proof |-> "Indeterminate"]

ASSUME NothingAssumption == Nothing \notin Messages

VARIABLES
    dnssec,     \* the DNSSEC settings of this resolver
    cd,         \* cd[f]: the key asks for checking to be disabled
    pc,         \* pc[f]: the step f is at
    attempt,    \* attempt[f]: validation passes begun
    msg,        \* msg[f]: the response in hand
    outcome,    \* outcome[f]: what the last validation pass came to
    route,      \* route[f]: the authority msg[f] came from, where it is known
    status,     \* status[f]: the DNSSEC status derived from msg[f]
    stored,     \* stored[f]: the entry put in the cache
    result,     \* result[f]: "None", "Ok" or the error
    slots,      \* free validation slots
    completing, \* proof completions and background validations in progress
    heard,      \* ghost: the authorities that gave f the answer it goes on with
    condemned   \* ghost: a validation nothing of ours disturbed called f's answer Bogus

fetchVars == <<dnssec, cd, pc, attempt, msg, outcome, route, status, stored, result, slots,
          completing, heard, condemned>>

\* What only some of the steps change.
settings == <<dnssec, cd>>
validation == <<attempt, outcome, condemned>>
answer == <<msg, route, heard>>

Steps == {"start", "asking", "queued", "validating", "concluding", "fallback", "checking",
          "corroborating", "done"}
ResolveError == {"NoRoute", "Overloaded", "AllFailed", "DnssecBogus", "ProofIncomplete"}
Entries == [kind : EntryKind, dnssec : Proof, ttl : Nat]

FetchInit ==
    /\ dnssec \in Configs
    /\ cd \in [Fetches -> BOOLEAN]
    /\ pc = [f \in Fetches |-> "start"]
    /\ attempt = [f \in Fetches |-> 0]
    /\ msg = [f \in Fetches |-> Nothing]
    /\ outcome = [f \in Fetches |-> "Indeterminate"]
    /\ route = [f \in Fetches |-> Nothing]
    /\ status = [f \in Fetches |-> "Indeterminate"]
    /\ stored = [f \in Fetches |-> Nothing]
    /\ result = [f \in Fetches |-> "None"]
    /\ slots = validation_capacity
    /\ completing = 0
    /\ heard = [f \in Fetches |-> {}]
    /\ condemned = [f \in Fetches |-> FALSE]

-----------------------------------------------------------------------------
(* src/policy/dnssec.rs                                                    *)

\* ad: the AD bit of an upstream whose AD is trusted, which counts in mode Off only.
dnssec_status(m, ad) ==
    IF dnssec.mode # "Off" THEN m.proof
    ELSE IF dnssec.trust_upstream_ad /\ ad THEN "Secure" ELSE "Indeterminate"

\* A Bogus proof is a verdict about the data only when nothing went wrong on our side.
classify(m, observed) ==
    CASE dnssec_status(m, FALSE) = "Secure" -> "Secure"
      [] dnssec_status(m, FALSE) = "Insecure" -> "ProvenInsecure"
      [] dnssec_status(m, FALSE) = "Indeterminate" -> "Indeterminate"
      [] dnssec_status(m, FALSE) = "Bogus" ->
            CASE observed = "None" -> "Bogus"
              [] observed = "Deadline" -> "Timeout"
              [] observed = "Transport" -> "TransportFailure"
              [] observed = "Refused" -> "IncompleteProof"

\* Mutant: a Bogus verdict gets a second pass as well.
RetriesBogus(o) == o \in {"IncompleteProof", "TransportFailure", "Timeout", "Bogus"}

is_retryable(o) == o \in {"IncompleteProof", "TransportFailure", "Timeout"}

-----------------------------------------------------------------------------
Goto(f, step) == pc' = [pc EXCEPT ![f] = step]

\* f returns an error.
Fail(f, e) ==
    /\ Goto(f, "done")
    /\ result' = [result EXCEPT ![f] = e]

\* f goes on.
Continue(f, step) ==
    /\ Goto(f, step)
    /\ UNCHANGED result

\* spawn_proof_completion and spawn_background_validation: dropped when no slot is free.
SpawnProof(wanted) ==
    completing' = IF wanted /\ completing < PROOF_COMPLETION_CONCURRENCY
                  THEN completing + 1 ELSE completing

ProofEnds ==
    /\ completing > 0
    /\ completing' = completing - 1
    /\ UNCHANGED <<settings, pc, validation, answer, status, stored, result, slots>>

-----------------------------------------------------------------------------
\* Whether validation stands between the upstream and the client.
Synchronous(f) == dnssec.mode = "Strict" /\ ~cd[f]

Begin(f) ==
    /\ pc[f] = "start"
    /\ Goto(f, IF Synchronous(f) THEN "queued" ELSE "asking")
    /\ UNCHANGED <<settings, validation, answer, status, stored, result, slots, completing>>

\* No such group, no validator for it, or a name that cannot be encoded.
NoRoute(f) ==
    /\ pc[f] = "start"
    /\ Fail(f, "NoRoute")
    /\ UNCHANGED <<settings, validation, answer, status, stored, slots, completing>>

\* The scheduler's answer.
Ask(f, a, kind) ==
    /\ pc[f] = "asking"
    /\ Goto(f, "checking")
    /\ msg' = [msg EXCEPT ![f] = Unproved(kind)]
    /\ route' = [route EXCEPT ![f] = a]
    /\ heard' = [heard EXCEPT ![f] = {a}]
    /\ UNCHANGED <<settings, validation, status, stored, result, slots, completing>>

\* Whatever error the scheduler returned is passed on.
AskFails(f) ==
    /\ pc[f] = "asking"
    /\ Fail(f, "AllFailed")
    /\ UNCHANGED <<settings, validation, answer, status, stored, slots, completing>>

AcquireSlot(f) ==
    /\ pc[f] = "queued"
    /\ slots > 0
    /\ slots' = slots - 1
    /\ attempt' = [attempt EXCEPT ![f] = 1]
    /\ Goto(f, "validating")
    /\ UNCHANGED <<settings, outcome, condemned, answer, status, stored, result, completing>>

\* The wait for a slot took all the time there was.
ShedFetch(f) ==
    /\ pc[f] = "queued"
    /\ slots = 0
    /\ Fail(f, "Overloaded")
    /\ UNCHANGED <<settings, validation, answer, status, stored, slots, completing>>

\* What a validation pass can come to: a message and what proofwatch saw, or an error.
Passes ==
    {[msg |-> m, outcome |-> classify(m, observed)] : m \in Messages, observed \in ProofFailure}
    \union {[msg |-> Nothing, outcome |-> o] :
                o \in {"IncompleteProof", "Bogus", "TransportFailure", "Timeout"}}

\* What a pass leaves behind, whether or not it is the last.
Observe(f, pass) ==
    /\ outcome' = [outcome EXCEPT ![f] = pass.outcome]
    /\ condemned' = [condemned EXCEPT ![f] = @ \/ pass.outcome = "Bogus"]

\* Mutant: the permit belongs to the first pass and is dropped with it.
RevalidateReleases(f, pass) ==
    /\ pc[f] = "validating"
    /\ attempt[f] < 2
    /\ is_retryable(pass.outcome)
    /\ Observe(f, pass)
    /\ attempt' = [attempt EXCEPT ![f] = @ + 1]
    /\ slots' = slots + 1
    /\ UNCHANGED <<settings, pc, answer, status, stored, result, completing>>

\* The pass failed for a reason of ours and time is left: once more.
Revalidate(f, pass) ==
    /\ pc[f] = "validating"
    /\ attempt[f] < 2
    /\ is_retryable(pass.outcome)
    /\ Observe(f, pass)
    /\ attempt' = [attempt EXCEPT ![f] = @ + 1]
    /\ UNCHANGED <<settings, pc, answer, status, stored, result, slots, completing>>

\* The last pass: it settled the matter, or was the second, or no time is left.
Validate(f, pass) ==
    /\ pc[f] = "validating"
    /\ Observe(f, pass)
    /\ msg' = [msg EXCEPT ![f] = pass.msg]
    /\ slots' = slots + 1
    /\ Goto(f, "concluding")
    /\ UNCHANGED <<settings, attempt, route, heard, status, stored, result, completing>>

\* The match on the outcome: fail closed, go on with the message, or look for another.
Conclude(f) ==
    /\ pc[f] = "concluding"
    /\ IF outcome[f] = "Bogus" THEN Fail(f, "DnssecBogus")
       ELSE IF msg[f] # Nothing THEN Continue(f, "checking")
       ELSE IF outcome[f] \in {"Secure", "ProvenInsecure"} THEN Fail(f, "AllFailed")
       ELSE Continue(f, "fallback")
    /\ SpawnProof(is_retryable(outcome[f]) /\ msg[f] # Nothing)
    /\ UNCHANGED <<settings, validation, answer, status, stored, slots>>

\* Mutant: the answer of the first authority is used whatever the second says.
FallbackBelievesFirst(f, a, b, kind, compatible) ==
    /\ pc[f] = "fallback"
    /\ b \in Independent \ {a}
    /\ IF kind = "Positive"
       THEN /\ Continue(f, "checking")
            /\ msg' = [msg EXCEPT ![f] = Unproved(kind)]
            /\ heard' = [heard EXCEPT ![f] = {a} \union {c \in {b} : compatible}]
            /\ SpawnProof(TRUE)
       ELSE Fail(f, "ProofIncomplete") /\ UNCHANGED <<msg, heard, completing>>
    /\ UNCHANGED <<settings, validation, route, status, stored, slots>>

\* `unproved_fallback`: two authorities were asked at once and both answered.  The first
\* one's records are used if the two are compatible; a negative never is.
Fallback(f, a, b, kind, compatible) ==
    /\ pc[f] = "fallback"
    /\ b \in Independent \ {a}
    /\ IF kind = "Positive" /\ compatible
       THEN /\ Continue(f, "checking")
            /\ msg' = [msg EXCEPT ![f] = Unproved(kind)]
            /\ heard' = [heard EXCEPT ![f] = {a, b}]
            /\ SpawnProof(TRUE)
       ELSE Fail(f, "ProofIncomplete") /\ UNCHANGED <<msg, heard, completing>>
    /\ UNCHANGED <<settings, validation, route, status, stored, slots>>

\* `unproved_fallback`: no time for a pair, no second authority, or one did not answer.
NoPair(f) ==
    /\ pc[f] = "fallback"
    /\ Fail(f, "ProofIncomplete")
    /\ UNCHANGED <<settings, validation, answer, status, stored, slots, completing>>

\* The check every response passes, and in mode Background the validation that follows it.
CheckDnssec(f, ad) ==
    LET s == dnssec_status(msg[f], ad) IN
    /\ pc[f] = "checking"
    /\ status' = [status EXCEPT ![f] = s]
    /\ IF s = "Bogus" THEN Fail(f, "DnssecBogus") ELSE Continue(f, "corroborating")
    /\ SpawnProof(s # "Bogus" /\ dnssec.mode = "Background" /\ ~cd[f])
    /\ UNCHANGED <<settings, validation, answer, stored, slots>>

-----------------------------------------------------------------------------
\* A negative nobody signed.
UnsignedNegative(f) == msg[f].kind = "NxDomain" /\ status[f] # "Secure"

Min2(m, n) == IF m < n THEN m ELSE n

\* Mutant: a negative from a single source is kept like any other.
TtlUnbounded(kind, raw, single) ==
    Min2(raw, IF kind = "Positive" THEN internal_max_ttl ELSE negative_max_ttl)

\* How long an answer is kept: capped by its kind, and once more for a single source.
Ttl(kind, raw, single) ==
    LET ttl == Min2(raw, IF kind = "Positive" THEN internal_max_ttl ELSE negative_max_ttl) IN
    IF single THEN Min2(ttl, PROVISIONAL_NEGATIVE_TTL) ELSE ttl

\* The rest of `fetch`: build the entry, store it, return it.
Store(f, kind, raw, single) ==
    /\ stored' = [stored EXCEPT ![f] =
                    [kind |-> kind, dnssec |-> status[f], ttl |-> Ttl(kind, raw, single)]]
    /\ Goto(f, "done")
    /\ result' = [result EXCEPT ![f] = "Ok"]
    /\ UNCHANGED <<settings, validation, msg, status, slots, completing>>

\* Nothing to corroborate, or nobody to ask, or no clear answer: the original stands.
KeepOriginal(f, raw) ==
    /\ pc[f] = "corroborating"
    /\ Store(f, msg[f].kind, raw, UnsignedNegative(f))
    /\ UNCHANGED <<route, heard>>

\* An independent authority b, other than the first, is asked about an unsigned negative.
SecondOpinion(f, b) ==
    /\ pc[f] = "corroborating"
    /\ UnsignedNegative(f)
    /\ dnssec.corroborate_negative
    /\ route[f] # Nothing
    /\ b \in Independent \ {route[f]}

\* It agrees that the name does not exist.
Agree(f, b, raw) ==
    /\ SecondOpinion(f, b)
    /\ Store(f, msg[f].kind, raw, FALSE)
    /\ heard' = [heard EXCEPT ![f] = @ \union {b}]
    /\ UNCHANGED route

\* It has records: they are used instead.
Contradict(f, b, raw) ==
    /\ SecondOpinion(f, b)
    /\ Store(f, "Positive", raw, FALSE)
    /\ route' = [route EXCEPT ![f] = b]
    /\ heard' = [heard EXCEPT ![f] = {b}]

-----------------------------------------------------------------------------
\* One step of fetch f.
Step(f) ==
    \/ Begin(f)
    \/ NoRoute(f)
    \/ \E a \in Authorities, kind \in EntryKind : Ask(f, a, kind)
    \/ AskFails(f)
    \/ AcquireSlot(f)
    \/ ShedFetch(f)
    \/ \E pass \in Passes : Revalidate(f, pass)
    \/ \E pass \in Passes : Validate(f, pass)
    \/ Conclude(f)
    \/ \E a, b \in Authorities, kind \in EntryKind, compatible \in BOOLEAN :
            Fallback(f, a, b, kind, compatible)
    \/ NoPair(f)
    \/ \E ad \in BOOLEAN : CheckDnssec(f, ad)
    \/ \E raw \in RawTtls : KeepOriginal(f, raw)
    \/ \E b \in Authorities, raw \in RawTtls : Agree(f, b, raw)
    \/ \E b \in Authorities, raw \in RawTtls : Contradict(f, b, raw)

FetchNext == (\E f \in Fetches : Step(f)) \/ ProofEnds

FetchSpec == FetchInit /\ [][FetchNext]_fetchVars

-----------------------------------------------------------------------------
FetchTypeOK ==
    /\ dnssec \in Configs
    /\ cd \in [Fetches -> BOOLEAN]
    /\ pc \in [Fetches -> Steps]
    /\ attempt \in [Fetches -> 0..2]
    /\ msg \in [Fetches -> Messages \union {Nothing}]
    /\ outcome \in [Fetches -> ValidationOutcome]
    /\ route \in [Fetches -> Authorities \union {Nothing}]
    /\ status \in [Fetches -> Proof]
    /\ stored \in [Fetches -> Entries \union {Nothing}]
    /\ result \in [Fetches -> ResolveError \union {"None", "Ok"}]
    /\ slots \in 0..validation_capacity
    /\ completing \in 0..PROOF_COMPLETION_CONCURRENCY
    /\ heard \in [Fetches -> SUBSET Authorities]
    /\ condemned \in [Fetches -> BOOLEAN]

\* Every validation slot is free or held by a fetch inside its validation loop: no way out
\* of the loop, retry included, keeps or returns one twice.
ValidationSlotsConserved ==
    slots + Cardinality({f \in Fetches : pc[f] = "validating"}) = validation_capacity

\* "This is the one path that fails closed, and it must stay that way": once a validation
\* that nothing of ours disturbed has said Bogus, no later pass and no fallback makes the
\* fetch succeed.
BogusFailsClosed ==
    \A f \in Fetches : condemned[f] => result[f] \in {"None", "DnssecBogus"}

\* An answer that strict mode could not prove comes from the validator itself or is a set
\* of records two different authorities agree on, the second of them independent: whatever
\* failed before, `unproved_fallback` gives nobody the word of one authority alone, and a
\* denial never.
UnprovedNeedsTwo ==
    \A f \in Fetches :
        result[f] = "Ok" /\ Synchronous(f) /\ heard[f] # {} =>
            /\ stored[f].kind = "Positive"
            /\ stored[f].dnssec = "Indeterminate"
            /\ Cardinality(heard[f]) = 2
            /\ heard[f] \intersect Independent # {}

\* "Fetch an answer we could not prove, if two independent authorities agree on it"
\* (dns/resolver.rs): neither of the two is a local forwarder.  `resolve_pair` asks this of
\* the second only; the first is whatever ranks best.
BothAreIndependent ==
    \A f \in Fetches :
        result[f] = "Ok" /\ Synchronous(f) => heard[f] \subseteq Independent

\* A denial is remembered beyond the provisional TTL only if it is signed, or a second
\* authority repeated it.
LongDenialsAreCorroborated ==
    \A f \in Fetches :
        result[f] = "Ok" /\ stored[f].kind = "NxDomain"
                         /\ stored[f].ttl > PROVISIONAL_NEGATIVE_TTL =>
            stored[f].dnssec = "Secure" \/ Cardinality(heard[f]) = 2

\* An outcome that "says nothing about the data ... must not fail closed on its own": a
\* fetch reports Bogus data only after a validation that nothing of ours disturbed.
IncompleteIsNotBogus ==
    \A f \in Fetches : result[f] = "DnssecBogus" => condemned[f]
=============================================================================
