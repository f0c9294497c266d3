------------------------ MODULE BackgroundValidation ------------------------
(***************************************************************************)
(* The evidence plane of src/dns/resolver.rs in DNSSEC mode Background,    *)
(* for one cache key: an answer is cached the moment it is served, and     *)
(* `spawn_background_validation` asks again, through the validator, and    *)
(* promotes or evicts what is cached when its verdict comes.               *)
(*                                                                         *)
(* Three things overlap: the fetch, which spawns the validation before it  *)
(* corroborates and stores its answer; the validations, which outlive      *)
(* several fetches; and each verdict's own two steps in src/cache/mod.rs,  *)
(* whose `promote` and `evict_variant` read the entry and then write.      *)
(***************************************************************************)
EXTENDS Naturals, FiniteSets

CONSTANTS
    Validations,                    \* validation tasks (bounds how many live at a time)
    Answers,                        \* the different answers the upstream may give
    Denials,                        \* those of them with an empty answer section
    PROOF_COMPLETION_CONCURRENCY,   \* permits of proof_completion_slots
    MaxAnswers,                     \* bounds the answers fetched
    None                            \* nothing cached, nothing read

ASSUME ValidationAssumption ==
    /\ IsFiniteSet(Validations)
    /\ Denials \subseteq Answers
    /\ PROOF_COMPLETION_CONCURRENCY \in Nat
    /\ MaxAnswers \in Nat

\* Forged: Bogus, and a signature in the answer was evaluated and failed.
Verdicts == {"Forged", "Secure", "ProvenInsecure"}

\* The answer section alone is hashed, so denials are all alike.  Sections that differ are
\* taken to hash differently.
answer_fingerprint(a) == IF a \in Denials THEN <<>> ELSE <<a>>

\* An entry: its answer, the fetch that brought it, and what is known of it.
Entries == [answer : Answers, fetch : 1..MaxAnswers,
            dnssec : {"Indeterminate", "Insecure", "Secure"}]

ASSUME NoneAssumption == None \notin Entries

VARIABLES
    cached,     \* the entry in the cache
    hand,       \* the answer a fetch has received and not stored yet
    fetches,    \* answers received so far
    at,         \* at[v]: "idle", "validating", "verdict" or "writing"
    about,      \* about[v]: the answer the verdict describes
    verdict,    \* verdict[v]: the verdict to act on
    seen,       \* seen[v]: the entry `promote` or `evict_variant` read
    slots,      \* free proof-completion slots
    proven,     \* ghost: answers some validation found Secure
    condemned   \* ghost: answers some validation found Forged

backgroundVars == <<cached, hand, fetches, at, about, verdict, seen, slots, proven, condemned>>
task == <<at, about, verdict, seen>>
ghosts == <<proven, condemned>>

BackgroundInit ==
    /\ cached = None
    /\ hand = None
    /\ fetches = 0
    /\ at = [v \in Validations |-> "idle"]
    /\ about \in [Validations -> Answers]
    /\ verdict = [v \in Validations |-> "Secure"]
    /\ seen = [v \in Validations |-> None]
    /\ slots = PROOF_COMPLETION_CONCURRENCY
    /\ proven = {}
    /\ condemned = {}

-----------------------------------------------------------------------------
\* A fetch receives an answer and spawns its validation, if a slot is free.
ReceiveAndSpawn(v, a) ==
    /\ hand = None
    /\ fetches < MaxAnswers
    /\ slots > 0
    /\ at[v] = "idle"
    /\ hand' = [answer |-> a, fetch |-> fetches + 1, dnssec |-> "Indeterminate"]
    /\ fetches' = fetches + 1
    /\ slots' = slots - 1
    /\ at' = [at EXCEPT ![v] = "validating"]
    /\ UNCHANGED <<cached, about, verdict, seen, ghosts>>

\* No slot is free: the validation is dropped, not queued.
ReceiveOnly(a) ==
    /\ hand = None
    /\ fetches < MaxAnswers
    /\ slots = 0
    /\ hand' = [answer |-> a, fetch |-> fetches + 1, dnssec |-> "Indeterminate"]
    /\ fetches' = fetches + 1
    /\ UNCHANGED <<cached, task, slots, ghosts>>

\* The fetch has finished corroborating: its answer replaces what is cached.
Insert ==
    /\ hand # None
    /\ cached' = hand
    /\ hand' = None
    /\ UNCHANGED <<fetches, task, slots, ghosts>>

\* The fetch is dropped while it corroborates.
DropFetch ==
    /\ hand # None
    /\ hand' = None
    /\ UNCHANGED <<cached, fetches, task, slots, ghosts>>

\* The entry expires, is evicted for room, or is flushed.
Expire ==
    /\ cached # None
    /\ cached' = None
    /\ UNCHANGED <<hand, fetches, task, slots, ghosts>>

-----------------------------------------------------------------------------
\* Timeout, error, Indeterminate, or Bogus without a failed signature: nothing changes.
LearnNothing(v) ==
    /\ at[v] = "validating"
    /\ slots' = slots + 1
    /\ at' = [at EXCEPT ![v] = "idle"]
    /\ UNCHANGED <<cached, hand, fetches, about, verdict, seen, ghosts>>

\* The validator's answer, which need not be the one the client was given, is judged.  A
\* failed signature is looked for in the answer section only.
Judge(v, a, o) ==
    /\ at[v] = "validating"
    /\ o = "Forged" => a \notin Denials
    /\ slots' = slots + 1
    /\ at' = [at EXCEPT ![v] = "verdict"]
    /\ about' = [about EXCEPT ![v] = a]
    /\ verdict' = [verdict EXCEPT ![v] = o]
    /\ proven' = IF o = "Secure" THEN proven \union {a} ELSE proven
    /\ condemned' = IF o = "Forged" THEN condemned \union {a} ELSE condemned
    /\ UNCHANGED <<cached, hand, fetches, seen>>

\* The status a verdict gives an entry.
StatusOf(o) == IF o = "Secure" THEN "Secure" ELSE "Insecure"

\* Mutant: the verdict applies to whatever is cached.
AppliesToAny(v) ==
    /\ cached # None
    /\ verdict[v] = "Forged" \/ cached.dnssec # StatusOf(verdict[v])

\* The checks of `promote` and of `evict_variant` on the entry they read.
Applies(v) ==
    /\ cached # None
    /\ answer_fingerprint(cached.answer) = answer_fingerprint(about[v])
    /\ verdict[v] = "Forged" \/ cached.dnssec # StatusOf(verdict[v])

\* `promote` or `evict_variant` reads the entry.
Look(v) ==
    /\ at[v] = "verdict"
    /\ at' = [at EXCEPT ![v] = IF Applies(v) THEN "writing" ELSE "idle"]
    /\ seen' = [seen EXCEPT ![v] = IF Applies(v) THEN cached ELSE None]
    /\ UNCHANGED <<cached, hand, fetches, about, verdict, slots, ghosts>>

\* ... and removes the key, or puts back the copy it updated.
Write(v) ==
    /\ at[v] = "writing"
    /\ cached' = IF verdict[v] = "Forged" THEN None
                 ELSE [seen[v] EXCEPT !.dnssec = StatusOf(verdict[v])]
    /\ at' = [at EXCEPT ![v] = "idle"]
    /\ seen' = [seen EXCEPT ![v] = None]
    /\ UNCHANGED <<hand, fetches, about, verdict, slots, ghosts>>

Validation(v) ==
    \/ LearnNothing(v)
    \/ \E a \in Answers, o \in Verdicts : Judge(v, a, o)
    \/ Look(v)
    \/ Write(v)

BackgroundNext ==
    \/ \E v \in Validations, a \in Answers : ReceiveAndSpawn(v, a)
    \/ \E a \in Answers : ReceiveOnly(a)
    \/ Insert
    \/ DropFetch
    \/ Expire
    \/ \E v \in Validations : Validation(v)

\* A validation is bounded by proof_completion_timeout and then runs to its end.
BackgroundFairness == \A v \in Validations : WF_backgroundVars(Validation(v))

BackgroundSpec == BackgroundInit /\ [][BackgroundNext]_backgroundVars /\ BackgroundFairness

-----------------------------------------------------------------------------
BackgroundTypeOK ==
    /\ cached \in Entries \union {None}
    /\ hand \in Entries \union {None}
    /\ fetches \in 0..MaxAnswers
    /\ at \in [Validations -> {"idle", "validating", "verdict", "writing"}]
    /\ about \in [Validations -> Answers]
    /\ verdict \in [Validations -> Verdicts]
    /\ seen \in [Validations -> Entries \union {None}]
    /\ \A v \in Validations : at[v] = "writing" => seen[v] # None
    /\ slots \in 0..PROOF_COMPLETION_CONCURRENCY
    /\ proven \subseteq Answers
    /\ condemned \subseteq Answers

\* A slot is free or held by a validation that is still asking: a verdict acts after its
\* slot is returned, and no way out of the task keeps one.
CompletionSlotsConserved ==
    slots + Cardinality({v \in Validations : at[v] = "validating"})
        = PROOF_COMPLETION_CONCURRENCY

\* Whatever the order of fetches, verdicts and writes, a cached Secure entry with records
\* holds an answer that was validated, and a Secure denial stands where some denial was.
SecureIsProven ==
    cached # None /\ cached.dnssec = "Secure" =>
        IF cached.answer \in Denials THEN proven \cap Denials # {} ELSE cached.answer \in proven

\* dns/resolver.rs:596, of a newer, different answer: "an early Secure verdict cannot bless
\* one".
VerdictStaysWithItsAnswer ==
    cached # None /\ cached.dnssec = "Secure" => cached.answer \in proven

\* Every validation ends, so its slot comes back.
ValidationsEnd == \A v \in Validations : at[v] # "idle" ~> at[v] = "idle"

\* "Evict and quarantine it, so it is served at most once and never again": an answer
\* found forged is not in the cache once its verdict has been acted on.
CondemnedIsGone ==
    cached # None /\ cached.answer \in condemned =>
        \E v \in Validations : at[v] # "idle" /\ verdict[v] = "Forged"

\* "a late verdict cannot delete an answer it never examined".
EvictsWhatItExamined ==
    [][\A v \in Validations :
        Write(v) /\ verdict[v] = "Forged" /\ cached # None => cached.answer = about[v]]_backgroundVars

\* "An entry that has already been replaced by a newer one is left alone".
NewerLeftAlone ==
    [][cached # None /\ cached' # None => cached'.fetch >= cached.fetch]_backgroundVars
=============================================================================
