-------------------------- MODULE SchedulerProofs --------------------------
(***************************************************************************)
(* Proofs about Scheduler, for any number of resolutions, any routes and   *)
(* any ceiling: the permits of the exchange semaphore are conserved, and   *)
(* attempts parked behind a truncation retry never hold all of them.       *)
(*                                                                         *)
(* The inductive invariant is PermitInv.  Besides the two properties it    *)
(* says where an exchange may be (OnlyLiveExchange): a call that has not   *)
(* begun or has returned has none, and a call in its loop has none of the  *)
(* retry's.  Without the first, a start or a return would overwrite a      *)
(* permit; without the second, the end of a retry would park its exchange. *)
(*                                                                         *)
(* What an error says is true by ReportInv: a call in its loop has started *)
(* its best route, has asked no route whose attempt was not sent, and has  *)
(* tried as many routes as it may once it fanned out.                      *)
(***************************************************************************)
EXTENDS Scheduler, SequenceFacts, FiniteSetTheorems, TLAPS

Phases == {"idle", "running", "retrying", "done"}

PermitTypes ==
    /\ phase \in [Resolutions -> Phases]
    /\ att \in [Resolutions -> [AttemptIds -> AttemptStates]]
    /\ free \in Nat
    /\ grace \in Nat

OnlyLiveExchange ==
    \A r \in Resolutions :
        /\ phase[r] \in {"idle", "done"} => \A a \in AttemptIds : att[r][a] # "onwire"
        /\ phase[r] = "running" => att[r][Retry] # "onwire"

Parked == {w \in Exchanges : ~Polled(w[1], w[2])}

PermitInv == PermitTypes /\ OnlyLiveExchange /\ PermitsConserved /\ RetryNotStarvedByParked

-----------------------------------------------------------------------------
(* Counting exchanges.                                                     *)

\* There are finitely many attempts, so exchanges can be counted.
LEMMA ExchangesFinite ==
    /\ IsFiniteSet(Exchanges)
    /\ Cardinality(Exchanges) \in Nat
    /\ \A r : IsFiniteSet(OnWire(r)) /\ Cardinality(OnWire(r)) \in Nat
<1>1. IsFiniteSet(AttemptIds)
  BY RoutesAssumption, FS_AddElement DEF AttemptIds
<1>2. IsFiniteSet(Resolutions \X AttemptIds)
  BY <1>1, RoutesAssumption, FS_Product
<1>3. Exchanges \in SUBSET (Resolutions \X AttemptIds)
  BY DEF Exchanges
<1>4. \A r : OnWire(r) \in SUBSET AttemptIds
  BY DEF OnWire
<1>5. IsFiniteSet(Exchanges)
  BY <1>2, <1>3, FS_Subset
<1>6. ASSUME NEW r PROVE IsFiniteSet(OnWire(r))
  BY <1>1, <1>4, FS_Subset
<1> QED
  BY <1>5, <1>6, FS_CardinalityType

\* A call's exchanges, counted as pairs or as attempts.
LEMMA ExchangesOf ==
    ASSUME NEW r \in Resolutions
    PROVE  /\ IsFiniteSet({r} \X OnWire(r))
           /\ Cardinality({r} \X OnWire(r)) = Cardinality(OnWire(r))
<1>1. IsFiniteSet({r}) /\ Cardinality({r}) = 1
  BY FS_Singleton
<1>2. /\ IsFiniteSet({r} \X OnWire(r))
      /\ Cardinality({r} \X OnWire(r)) = 1 * Cardinality(OnWire(r))
  BY <1>1, ExchangesFinite, FS_Product, Zenon
<1> QED
  BY <1>2, ExchangesFinite

\* A step that starts and ends no exchange and moves no permit.
LEMMA Quiet ==
    ASSUME PermitInv, Exchanges' = Exchanges, free' = free, grace' = grace, Parked' \subseteq Parked
    PROVE  PermitsConserved' /\ RetryNotStarvedByParked'
<1>1. IsFiniteSet(Parked) /\ Parked' \in SUBSET Parked
  BY ExchangesFinite, FS_Subset DEF Parked
<1>2. Cardinality(Parked') <= Cardinality(Parked) /\ Cardinality(Parked) \in Nat /\ Cardinality(Parked') \in Nat
  BY <1>1, FS_Subset, FS_CardinalityType
<1> QED
  BY <1>2, CapacityAssumption DEF PermitInv, PermitsConserved, RetryNotStarvedByParked, Parked

\* One exchange begins and takes a permit: it is polled, so none is parked by it.
LEMMA Begins ==
    ASSUME PermitInv, NEW w, w \notin Exchanges, Exchanges' = Exchanges \union {w},
           free > 0, free' = free - 1, grace' = grace, Parked' \subseteq Parked
    PROVE  PermitsConserved' /\ RetryNotStarvedByParked'
<1>1. IsFiniteSet(Parked) /\ Parked' \in SUBSET Parked
  BY ExchangesFinite, FS_Subset DEF Parked
<1>2. /\ Cardinality(Parked') <= Cardinality(Parked)
      /\ Cardinality(Parked) \in Nat /\ Cardinality(Parked') \in Nat
  BY <1>1, FS_Subset, FS_CardinalityType
<1>3. Cardinality(Exchanges') = Cardinality(Exchanges) + 1
  BY ExchangesFinite, FS_AddElement
<1>4. PermitsConserved'
  BY <1>3, ExchangesFinite, CapacityAssumption DEF PermitInv, PermitTypes, PermitsConserved
<1> QED
  BY <1>2, <1>4, CapacityAssumption DEF PermitInv, RetryNotStarvedByParked, Parked

\* One exchange ends and gives its permit back.
LEMMA Ends ==
    ASSUME PermitInv, NEW w \in Exchanges, Exchanges' = Exchanges \ {w},
           free' = free + 1, grace' = grace
    PROVE  PermitsConserved' /\ RetryNotStarvedByParked'
<1>1. IsFiniteSet(Exchanges') /\ Cardinality(Exchanges') = Cardinality(Exchanges) - 1
  BY ExchangesFinite, FS_RemoveElement
<1>2. Parked' \in SUBSET Exchanges'
  BY DEF Parked
<1>3. /\ Cardinality(Parked') <= Cardinality(Exchanges')
      /\ Cardinality(Parked') \in Nat
  BY <1>1, <1>2, FS_Subset, FS_CardinalityType
<1>4. Cardinality(Exchanges) <= capacity
  BY ExchangesFinite, CapacityAssumption DEF PermitInv, PermitTypes, PermitsConserved
<1>5. PermitsConserved'
  BY <1>1, ExchangesFinite, CapacityAssumption DEF PermitInv, PermitTypes, PermitsConserved
<1>6. Cardinality(Parked') < capacity
  BY <1>1, <1>3, <1>4, ExchangesFinite, CapacityAssumption
<1> QED
  BY <1>5, <1>6 DEF RetryNotStarvedByParked, Parked

-----------------------------------------------------------------------------
(* Returning from `resolve`.                                               *)

\* Whatever is still going when a call returns ends, and its permits are free or in grace.
LEMMA LeaveStep ==
    ASSUME PermitInv, NEW r \in Resolutions, NEW res, NEW ended \in SUBSET OnWire(r),
           Leave(r, res, ended)
    PROVE  PermitInv'
<1> DEFINE dropped == OnWire(r) \ ended
<1>1. PermitTypes /\ OnlyLiveExchange /\ PermitsConserved /\ RetryNotStarvedByParked
  BY DEF PermitInv
<1>2. /\ IsFiniteSet(ended) /\ IsFiniteSet(dropped)
      /\ Cardinality(ended) \in Nat /\ Cardinality(dropped) \in Nat
      /\ Cardinality(ended) + Cardinality(dropped) = Cardinality(OnWire(r))
  <2>1. OnWire(r) \cap ended = ended
    OBVIOUS
  <2>2. IsFiniteSet(dropped) /\ Cardinality(dropped) = Cardinality(OnWire(r)) - Cardinality(ended)
    BY <2>1, ExchangesFinite, FS_Difference, Zenon
  <2>3. IsFiniteSet(ended)
    BY ExchangesFinite, FS_Subset
  <2>4. Cardinality(ended) \in Nat /\ Cardinality(dropped) \in Nat
    BY <2>2, <2>3, FS_CardinalityType
  <2> QED
    BY <2>2, <2>3, <2>4, ExchangesFinite
<1>3. /\ free' \in Nat /\ grace' \in Nat
      /\ free' + grace' = free + grace + Cardinality(OnWire(r))
  <2>1. CASE expired[r]
    BY <2>1, <1>1, <1>2, ExchangesFinite DEF Leave, PermitTypes
  <2>2. CASE ~expired[r]
    BY <2>2, <1>1, <1>2, ExchangesFinite DEF Leave, PermitTypes
  <2> QED
    BY <2>1, <2>2
<1>4. /\ phase' = [phase EXCEPT ![r] = "done"]
      /\ att' = [att EXCEPT ![r] = [a \in AttemptIds |->
                    IF a \in ended THEN "taken"
                    ELSE IF a \in dropped \/ att[r][a] \in Unsent THEN "none" ELSE att[r][a]]]
  BY DEF Leave
<1>5. PermitTypes'
  BY <1>1, <1>3, <1>4 DEF PermitTypes, Phases, AttemptStates, Unsent
<1>6. \A a \in AttemptIds : att'[r][a] # "onwire"
  BY <1>1, <1>4 DEF PermitTypes, OnWire, Unsent
<1>7. \A q \in Resolutions : q # r => att'[q] = att[q] /\ phase'[q] = phase[q]
  BY <1>1, <1>4 DEF PermitTypes
<1>8. OnlyLiveExchange'
  BY <1>1, <1>4, <1>6, <1>7, Zenon DEF OnlyLiveExchange, PermitTypes, AttemptIds
<1>9. Exchanges' = Exchanges \ ({r} \X OnWire(r))
  BY <1>6, <1>7 DEF Exchanges, OnWire
<1>10. Exchanges \cap ({r} \X OnWire(r)) = {r} \X OnWire(r)
  BY DEF Exchanges, OnWire
<1>11. /\ IsFiniteSet(Exchanges')
       /\ Cardinality(Exchanges') = Cardinality(Exchanges) - Cardinality(OnWire(r))
  <2> DEFINE mine == {r} \X OnWire(r)
  <2> HIDE DEF mine
  <2>1. /\ IsFiniteSet(Exchanges \ mine)
        /\ Cardinality(Exchanges \ mine) = Cardinality(Exchanges) - Cardinality(Exchanges \cap mine)
    BY ExchangesFinite, FS_Difference, Zenon
  <2>2. Cardinality(mine) = Cardinality(OnWire(r))
    BY ExchangesOf DEF mine
  <2>3. Exchanges' = Exchanges \ mine /\ Exchanges \cap mine = mine
    BY <1>9, <1>10 DEF mine
  <2> QED
    BY <2>1, <2>2, <2>3
<1>12. PermitsConserved'
  <2>1. Cardinality(OnWire(r)) \in Nat /\ Cardinality(Exchanges) \in Nat
    BY ExchangesFinite
  <2>2. free + Cardinality(Exchanges) + grace = capacity /\ free \in Nat /\ grace \in Nat
    BY <1>1 DEF PermitsConserved, PermitTypes
  <2>3. free' + Cardinality(Exchanges') + grace' = capacity
    BY <2>1, <2>2, <1>3, <1>11
  <2> QED
    BY <2>3 DEF PermitsConserved
<1>13. Parked' \in SUBSET Parked
  BY <1>7, <1>9 DEF Parked, Polled, Exchanges, OnWire
<1>14. IsFiniteSet(Parked)
  BY ExchangesFinite, FS_Subset DEF Parked
<1>15. Cardinality(Parked') <= Cardinality(Parked) /\ Cardinality(Parked) \in Nat /\ Cardinality(Parked') \in Nat
  BY <1>13, <1>14, FS_Subset, FS_CardinalityType
<1>16. RetryNotStarvedByParked'
  BY <1>1, <1>15, CapacityAssumption DEF RetryNotStarvedByParked, Parked
<1> QED
  BY <1>5, <1>8, <1>12, <1>16 DEF PermitInv

-----------------------------------------------------------------------------
(* The steps.                                                              *)

\* The first state has every permit free and no exchange.
LEMMA InitPermitInv == Init => PermitInv
<1> SUFFICES ASSUME Init PROVE PermitInv
  OBVIOUS
<1>1. PermitTypes /\ OnlyLiveExchange
  BY CapacityAssumption DEF Init, PermitTypes, OnlyLiveExchange, Phases, AttemptStates, AttemptIds
<1>2. Exchanges = {} /\ Parked = {}
  BY DEF Init, Exchanges, Parked
<1>3. Cardinality(Exchanges) = 0 /\ Cardinality(Parked) = 0
  BY <1>2, FS_EmptySet
<1> QED
  BY <1>1, <1>3, CapacityAssumption
  DEF Init, PermitInv, PermitsConserved, RetryNotStarvedByParked, Parked

\* A call begins: its attempts are queued or delayed, and hold nothing.
LEMMA StartStep ==
    ASSUME PermitInv, NEW r \in Resolutions, NEW order, NEW hedge, Start(r, order, hedge)
    PROVE  PermitInv'
<1> USE DEF PermitInv
<1>1. att' = [att EXCEPT ![r] = att'[r]] /\ \A a \in AttemptIds : att'[r][a] \in {"waiting", "delayed", "none"}
  BY DEF Start, PermitTypes
<1>2. PermitTypes'
  BY DEF Start, PermitTypes, Phases, AttemptStates, Unsent
<1>3. OnlyLiveExchange'
  BY <1>1 DEF Start, PermitTypes, OnlyLiveExchange, AttemptIds
<1>4. Exchanges' = Exchanges
  BY <1>1 DEF Start, PermitTypes, OnlyLiveExchange, Exchanges
<1>5. Parked' \subseteq Parked
  BY <1>4 DEF Start, PermitTypes, OnlyLiveExchange, Exchanges, Parked, Polled
<1>6. PermitsConserved' /\ RetryNotStarvedByParked'
  BY <1>4, <1>5, Quiet DEF Start
<1> QED
  BY <1>2, <1>3, <1>6

\* A permit is taken for an attempt that is polled.
LEMMA SendStep ==
    ASSUME PermitInv, NEW r \in Resolutions, NEW a \in AttemptIds, Polled(r, a),
           att[r][a] # "onwire", free > 0, Send(r, a)
    PROVE  PermitInv'
<1> USE DEF PermitInv
<1>1. PermitTypes'
  BY DEF Send, PermitTypes, AttemptStates
<1>2. OnlyLiveExchange'
  BY RoutesAssumption DEF Send, PermitTypes, OnlyLiveExchange, Polled, AttemptIds
<1>3. <<r, a>> \notin Exchanges /\ Exchanges' = Exchanges \union {<<r, a>>}
  BY DEF Send, PermitTypes, Exchanges
<1>4. Parked' \subseteq Parked
  BY <1>3 DEF Send, Parked, Polled
<1>5. PermitsConserved' /\ RetryNotStarvedByParked'
  BY <1>3, <1>4, Begins DEF Send
<1> QED
  BY <1>1, <1>2, <1>5

\* An attempt that had sent nothing changes its state to one that holds nothing.
LEMMA UnsentStep ==
    ASSUME PermitInv, NEW r \in Resolutions, NEW a \in AttemptIds, NEW v \in AttemptStates,
           att[r][a] # "onwire", v # "onwire", att' = [att EXCEPT ![r][a] = v],
           UNCHANGED <<phase, free, grace>>
    PROVE  PermitInv'
<1> USE DEF PermitInv
<1>1. PermitTypes' /\ OnlyLiveExchange'
  BY DEF PermitTypes, OnlyLiveExchange
<1>2. Exchanges' = Exchanges
  BY DEF PermitTypes, Exchanges
<1>3. Parked' \subseteq Parked
  BY <1>2 DEF Parked, Polled
<1> QED
  BY <1>1, <1>2, <1>3, Quiet

\* An exchange ends and the call goes on.
LEMMA EndStep ==
    ASSUME PermitInv, NEW r \in Resolutions, NEW a \in AttemptIds, NEW v \in AttemptStates,
           att[r][a] = "onwire", v # "onwire", att' = [att EXCEPT ![r][a] = v],
           free' = free + 1, UNCHANGED <<phase, grace>>
    PROVE  PermitInv'
<1> USE DEF PermitInv
<1>1. PermitTypes' /\ OnlyLiveExchange'
  BY DEF PermitTypes, OnlyLiveExchange
<1>2. <<r, a>> \in Exchanges /\ Exchanges' = Exchanges \ {<<r, a>>}
  BY DEF PermitTypes, Exchanges
<1> QED
  BY <1>1, <1>2, Ends

\* The truncated exchange gives its permit back before the call turns to its retry, so
\* what the call parks is less than the ceiling.
LEMMA TruncatedStep ==
    ASSUME PermitInv, NEW r \in Resolutions, NEW a \in AttemptIds, NEW order,
           Truncated(r, a, order)
    PROVE  PermitInv'
<1> USE DEF PermitInv
<1>1. CASE order = <<>> \/ expired[r]
  <2>1. Leave(r, "InvalidResponse", {a}) /\ {a} \in SUBSET OnWire(r)
    BY <1>1 DEF Truncated, OnWire
  <2> QED
    BY <2>1, LeaveStep
<1>2. CASE ~(order = <<>> \/ expired[r])
  <2>1. /\ phase[r] = "running" /\ a \in Routes /\ att[r][a] = "onwire"
        /\ phase' = [phase EXCEPT ![r] = "retrying"]
        /\ att' = [att EXCEPT ![r][a] = "taken", ![r][Retry] = "waiting"]
        /\ free' = free + 1 /\ grace' = grace
    BY <1>2 DEF Truncated
  <2>2. a # Retry /\ Retry \in AttemptIds /\ att[r][Retry] # "onwire"
    BY <2>1, RoutesAssumption DEF OnlyLiveExchange, AttemptIds
  <2> DEFINE left == [att[r] EXCEPT ![a] = "taken", ![Retry] = "waiting"]
  <2>3. left \in [AttemptIds -> AttemptStates] /\ att' = [att EXCEPT ![r] = left]
    BY <2>1, <2>2, Zenon DEF PermitTypes, AttemptStates, Unsent
  <2> HIDE DEF left
  <2>4. PermitTypes'
    <3>1. att' \in [Resolutions -> [AttemptIds -> AttemptStates]]
      BY <2>3 DEF PermitTypes
    <3>2. phase' \in [Resolutions -> Phases]
      BY <2>1 DEF PermitTypes, Phases
    <3>3. free' \in Nat /\ grace' \in Nat
      <4>1. free \in Nat /\ grace \in Nat /\ free' = free + 1 /\ grace' = grace
        BY <2>1 DEF PermitTypes
      <4> QED
        BY <4>1
    <3> QED
      BY <3>1, <3>2, <3>3 DEF PermitTypes
  <2>5. OnlyLiveExchange'
    BY <2>1, <2>2 DEF PermitTypes, OnlyLiveExchange
  <2>6. <<r, a>> \in Exchanges /\ Exchanges' = Exchanges \ {<<r, a>>}
    BY <2>1, <2>2 DEF PermitTypes, Exchanges
  <2> QED
    BY <2>1, <2>4, <2>5, <2>6, Ends
<1> QED
  BY <1>1, <1>2

\* The retry's route did not answer: the next one is queued, or the call returns.
LEMMA NextRetryStep ==
    ASSUME PermitInv, NEW r \in Resolutions, NEW ended, phase[r] = "retrying",
           \/ ended = {} /\ att[r][Retry] # "onwire"
           \/ ended = {Retry} /\ att[r][Retry] = "onwire",
           NextRetry(r, ended)
    PROVE  PermitInv'
<1>1. Retry \in AttemptIds /\ "waiting" \in AttemptStates
  BY DEF AttemptIds, AttemptStates, Unsent
<1>2. Cardinality({}) = 0 /\ Cardinality({Retry}) = 1
  BY FS_EmptySet, FS_Singleton, Zenon
<1>3. free \in Nat
  BY DEF PermitInv, PermitTypes
<1>4. CASE Len(retry_routes[r]) > 1 /\ ~expired[r]
  <2>1. /\ att' = [att EXCEPT ![r][Retry] = "waiting"] /\ free' = free + Cardinality(ended)
        /\ UNCHANGED <<phase, grace>>
    BY <1>4 DEF NextRetry
  <2>2. CASE ended = {} /\ att[r][Retry] # "onwire"
    <3>1. UNCHANGED <<phase, free, grace>>
      BY <2>1, <2>2, <1>2, <1>3
    <3> QED
      BY <2>1, <2>2, <3>1, <1>1, UnsentStep, Zenon
  <2>3. CASE ended = {Retry} /\ att[r][Retry] = "onwire"
    BY <2>1, <2>3, <1>1, <1>2, <1>3, EndStep, Zenon
  <2> QED
    BY <2>2, <2>3
<1>5. CASE ~(Len(retry_routes[r]) > 1 /\ ~expired[r])
  <2>1. Leave(r, "InvalidResponse", ended) /\ ended \in SUBSET OnWire(r)
    BY <1>1, <1>5 DEF NextRetry, OnWire
  <2> QED
    BY <2>1, LeaveStep
<1> QED
  BY <1>4, <1>5

\* The fan-out starts attempts that take their permits later, or the call returns.
LEMMA ExhaustedStep ==
    ASSUME PermitInv, NEW r \in Resolutions, Exhausted(r)
    PROVE  PermitInv'
<1> USE DEF PermitInv
<1>1. ASSUME NEW res, Leave(r, res, {}) PROVE PermitInv'
  BY <1>1, LeaveStep
<1>2. ASSUME NEW extra,
             att' = [att EXCEPT ![r] = [a \in AttemptIds |->
                        IF a \in extra THEN "trying" ELSE att[r][a]]],
             UNCHANGED <<phase, free, grace>>
      PROVE  PermitInv'
  <2>1. phase[r] = "running" /\ \A a \in AttemptIds : att[r][a] # "onwire"
    BY DEF Exhausted, OnlyLiveExchange, AttemptIds
  <2>2. PermitTypes'
    BY <1>2 DEF PermitTypes, AttemptStates, Unsent
  <2>3. \A q \in Resolutions, a \in AttemptIds : att'[q][a] = "onwire" <=> att[q][a] = "onwire"
    BY <1>2, <2>1 DEF PermitTypes
  <2>4. OnlyLiveExchange'
    BY <1>2, <2>3 DEF OnlyLiveExchange, AttemptIds
  <2>5. Exchanges' = Exchanges
    BY <2>3 DEF Exchanges
  <2>6. Parked' \subseteq Parked
    BY <1>2, <2>5 DEF Parked, Polled
  <2> QED
    BY <1>2, <2>2, <2>4, <2>5, <2>6, Quiet
<1> QED
  BY <1>1, <1>2 DEF Exhausted

\* Every step of the scheduler keeps the invariant.
LEMMA NextPermitInv == PermitInv /\ [Next]_vars => PermitInv'
<1> SUFFICES ASSUME PermitInv, [Next]_vars PROVE PermitInv'
  OBVIOUS
<1>0. /\ free \in Nat /\ Cardinality({}) = 0 /\ \A a : Cardinality({a}) = 1
      /\ "taken" \in AttemptStates
  BY FS_EmptySet, FS_Singleton, Zenon DEF PermitInv, PermitTypes, AttemptStates
<1>1. ASSUME NEW r \in Resolutions, NEW order, NEW hedge, Start(r, order, hedge) PROVE PermitInv'
  BY <1>1, StartStep
<1>2. ASSUME NEW r \in Resolutions, NEW a \in AttemptIds, Acquire(r, a) PROVE PermitInv'
  BY <1>2, SendStep DEF Acquire
<1>3. ASSUME NEW r \in Resolutions, NEW a \in AttemptIds, TryAcquire(r, a) PROVE PermitInv'
  <2>1. Waiters \in SUBSET (Resolutions \X AttemptIds) /\ IsFiniteSet(Resolutions \X AttemptIds)
    BY RoutesAssumption, FS_AddElement, FS_Product, Zenon DEF Waiters, AttemptIds
  <2>2. Cardinality(Waiters) \in Nat
    BY <2>1, FS_Subset, FS_CardinalityType
  <2>3. free > 0
    BY <1>0, <1>3, <2>2 DEF TryAcquire
  <2> QED
    BY <1>3, <2>3, SendStep DEF TryAcquire
<1>4. ASSUME NEW r \in Resolutions, NEW a \in AttemptIds, ShedAttempt(r, a) PROVE PermitInv'
  <2>1. att[r][a] # "onwire" /\ Polled(r, a)
    BY <1>4 DEF ShedAttempt, Unsent
  <2>2. CASE a = Retry
    <3>1. NextRetry(r, {}) /\ phase[r] = "retrying"
      BY <1>4, <2>1, <2>2, RoutesAssumption DEF ShedAttempt, Polled
    <3> QED
      BY <2>1, <2>2, <3>1, NextRetryStep
  <2>3. CASE a # Retry /\ a = ranked[r][1]
    <3>1. PICK res : Leave(r, res, {})
      BY <1>4, <2>3 DEF ShedAttempt
    <3> QED
      BY <3>1, LeaveStep
  <2>4. CASE a # Retry /\ a # ranked[r][1]
    <3>1. att' = [att EXCEPT ![r][a] = "taken"] /\ UNCHANGED <<phase, free, grace>>
      BY <1>0, <1>4, <2>4 DEF ShedAttempt, Consume
    <3> QED
      BY <1>0, <2>1, <3>1, UnsentStep, Zenon
  <2> QED
    BY <2>2, <2>3, <2>4
<1>5. ASSUME NEW r \in Resolutions, NEW a \in AttemptIds, Fail(r, a) PROVE PermitInv'
  <2>1. att[r][a] = "onwire" /\ Polled(r, a)
    BY <1>5 DEF Fail
  <2>2. CASE a = Retry
    <3>1. NextRetry(r, {Retry}) /\ phase[r] = "retrying"
      BY <1>5, <2>1, <2>2, RoutesAssumption DEF Fail, Polled
    <3> QED
      BY <2>1, <2>2, <3>1, NextRetryStep
  <2>3. CASE a # Retry
    <3>1. att' = [att EXCEPT ![r][a] = "taken"] /\ free' = free + 1 /\ UNCHANGED <<phase, grace>>
      BY <1>0, <1>5, <2>3, Zenon DEF Fail, Consume
    <3> QED
      BY <1>0, <2>1, <3>1, EndStep, Zenon
  <2> QED
    BY <2>2, <2>3
<1>6. ASSUME NEW r \in Resolutions, NEW a \in AttemptIds, Answer(r, a) PROVE PermitInv'
  <2>1. {a} \in SUBSET OnWire(r) /\ Leave(r, "Ok", {a})
    BY <1>6 DEF Answer, OnWire
  <2> QED
    BY <2>1, LeaveStep
<1>7. ASSUME NEW r \in Resolutions, NEW a \in AttemptIds, NEW order, Truncated(r, a, order)
      PROVE  PermitInv'
  BY <1>7, TruncatedStep
<1>8. ASSUME NEW r \in Resolutions, Exhausted(r) PROVE PermitInv'
  BY <1>8, ExhaustedStep
<1>9. ASSUME NEW r \in Resolutions, TimeOut(r) \/ Drop(r) PROVE PermitInv'
  <2>1. PICK res : Leave(r, res, {})
    BY <1>9 DEF TimeOut, Drop
  <2> QED
    BY <2>1, LeaveStep
<1>10. ASSUME NEW r \in Resolutions, Expire(r) PROVE PermitInv'
  <2>1. UNCHANGED <<phase, att, free, grace>>
    BY <1>10 DEF Expire
  <2> QED
    BY <2>1 DEF PermitInv, PermitTypes, OnlyLiveExchange, PermitsConserved,
                RetryNotStarvedByParked, Exchanges, Polled
<1>11. CASE EndGrace
  <2>1. /\ UNCHANGED <<phase, att>> /\ free' \in Nat /\ grace' \in Nat
        /\ free' + grace' = free + grace
    BY <1>11 DEF EndGrace, PermitInv, PermitTypes
  <2>2. Exchanges' = Exchanges /\ Parked' = Parked
    BY <2>1 DEF Exchanges, Parked, Polled
  <2>3. PermitsConserved'
    <3>1. /\ free + Cardinality(Exchanges) + grace = capacity /\ free \in Nat /\ grace \in Nat
          /\ Cardinality(Exchanges) \in Nat
      BY ExchangesFinite DEF PermitsConserved, PermitInv, PermitTypes
    <3>2. Cardinality(Exchanges') = Cardinality(Exchanges)
      BY <2>2
    <3>3. free' = free + 1 /\ grace' = grace - 1
      BY <1>11 DEF EndGrace
    <3>4. free' + Cardinality(Exchanges') + grace' = capacity
      BY <3>1, <3>2, <3>3, CapacityAssumption
    <3> QED
      BY <3>4 DEF PermitsConserved
  <2> QED
    BY <2>1, <2>2, <2>3, Zenon
    DEF PermitInv, PermitTypes, OnlyLiveExchange, RetryNotStarvedByParked, Parked
<1>12. CASE UNCHANGED vars
  BY <1>12 DEF vars, PermitInv, PermitTypes, OnlyLiveExchange, PermitsConserved,
               RetryNotStarvedByParked, Exchanges, Polled
<1> QED
  BY <1>1, <1>2, <1>3, <1>4, <1>5, <1>6, <1>7, <1>8, <1>9, <1>10, <1>11, <1>12 DEF Next, Poll

-----------------------------------------------------------------------------
(* The theorems.                                                           *)

\* Every permit of the exchange semaphore is free, brackets one exchange, or is in its
\* grace period, however many resolutions, hedges, retries and cancellations there are.
THEOREM PermitsAreConserved == Spec => []PermitsConserved
<1>1. PermitInv => PermitsConserved
  BY DEF PermitInv
<1> QED
  BY <1>1, InitPermitInv, NextPermitInv, PTL DEF Spec

\* Attempts that nobody polls, because their calls await a truncation retry, never hold
\* every permit, whatever the number of calls doing so at once.
THEOREM RetriesAreNotStarved == Spec => []RetryNotStarvedByParked
<1>1. PermitInv => RetryNotStarvedByParked
  BY DEF PermitInv
<1> QED
  BY <1>1, InitPermitInv, NextPermitInv, PTL DEF Spec
-----------------------------------------------------------------------------
(* What `resolve` reports.                                                 *)

ReportTypes ==
    /\ phase \in [Resolutions -> Phases]
    /\ att \in [Resolutions -> [AttemptIds -> AttemptStates]]
    /\ sent \in [Resolutions -> [Routes -> Nat]]
    /\ fanned_out \in [Resolutions -> BOOLEAN]
    /\ result \in [Resolutions -> Results]
    /\ ranked \in [Resolutions -> Seq(Routes)]

\* Before a call begins it has asked nothing, and it has a result only when it is over.
BeforeInv(r) ==
    /\ phase[r] = "idle" => ~fanned_out[r] /\ \A x \in Routes : sent[r][x] = 0
    /\ result[r] # "None" => phase[r] = "done"

\* In the loop, the best route was started, a route not yet sent to was not asked, and a
\* fan-out has started as many routes as it may.
LoopInv(r) ==
    phase[r] = "running" =>
        /\ ranked[r] \in RankOrders
        /\ att[r][ranked[r][1]] # "none"
        /\ \A x \in Routes : att[r][x] \notin {"onwire", "taken"} => sent[r][x] = 0
        /\ fanned_out[r] => TriedEnough(r)

\* What the call returned is true of it.
TrueReport(r) ==
    /\ result[r] = "AllFailed" /\ emergency_fanout => TriedEnough(r)
    /\ result[r] = "Overloaded" => sent[r][ranked[r][1]] = 0

CallInv(r) == BeforeInv(r) /\ LoopInv(r) /\ TrueReport(r)

ReportInv == ReportTypes /\ \A r \in Resolutions : CallInv(r)

\* An offered order is a sequence of routes, not empty and without repetition.
LEMMA RankOrderFacts ==
    ASSUME NEW order \in RankOrders
    PROVE  /\ order \in Seq(Routes) /\ order # <<>>
           /\ 1 \in DOMAIN order
           /\ \A i, j \in DOMAIN order : order[i] = order[j] => i = j
<1>1. PICK S \in SUBSET Routes : order \in Listings(S)
  BY DEF RankOrders, Orders
<1>2. Cardinality(S) \in Nat
  BY RoutesAssumption, FS_Subset, FS_CardinalityType
<1> DEFINE n == Cardinality(S)
<1>3. order \in [1..n -> S] /\ \A i, j \in 1..n : i # j => order[i] # order[j]
  BY <1>1 DEF Listings, IsInjective
<1> HIDE DEF n
<1>4. n \in Nat
  BY <1>2 DEF n
<1>5. order \in Seq(Routes) /\ Len(order) = n
  BY <1>3, <1>4
<1>6. order # <<>>
  BY DEF RankOrders
<1>7. 1 \in DOMAIN order
  BY <1>4, <1>5, <1>6
<1> QED
  BY <1>3, <1>5, <1>6, <1>7


\* A fan-out starts every route never started, or as many as it may: with the best route,
\* that is more than its limit.
LEMMA FanoutEnough ==
    ASSUME ReportTypes, NEW r \in Resolutions, ranked[r] \in RankOrders, ranked'[r] = ranked[r],
           att[r][ranked[r][1]] # "none",
           \A x \in Routes : att[r][x] # "none" => att'[r][x] # "none",
           \A x \in Fanout(r) : att'[r][x] # "none"
    PROVE  TriedEnough(r)'
<1> DEFINE order == ranked[r]
           U == Untried(r)
           Before(i) == {j \in U : j < i}
           F == {i \in U : Cardinality(Before(i)) < emergency_fanout_max}
<1>1. /\ order \in Seq(Routes) /\ 1 \in DOMAIN order
      /\ \A i, j \in DOMAIN order : order[i] = order[j] => i = j
  BY RankOrderFacts
<1>2. U \in SUBSET DOMAIN order /\ \A i \in DOMAIN order : i \in U <=> att[r][order[i]] = "none"
  BY DEF Untried
<1>3. \A i \in F : order[i] \in Fanout(r)
  BY Zenon DEF Fanout
<1>4. DOMAIN order = 1..Len(order) /\ Len(order) \in Nat /\ \A i \in DOMAIN order : order[i] \in Routes
  BY <1>1
<1>5. Range(order)' = Range(order) /\ Range(order) = {order[i] : i \in DOMAIN order}
  BY DEF Range
<1>6. Tried(r)' = {x \in Range(order) : att'[r][x] # "none"}
  BY <1>5 DEF Tried
<1> HIDE DEF order, U
<1>7. CASE U \subseteq F
  <2>1. ASSUME NEW i \in DOMAIN order PROVE att'[r][order[i]] # "none"
    BY <1>2, <1>3, <1>4, <1>7, Zenon
  <2>2. Tried(r)' = Range(order)
    BY <2>1, <1>5, <1>6
  <2> QED
    BY <2>2, <1>5 DEF TriedEnough, order
<1>8. CASE ~(U \subseteq F)
  <2>1. PICK i \in U \ F : \A m \in U \ F : i <= m
    <3> HIDE DEF F
    <3>1. U \ F \in SUBSET Nat /\ U \ F # {}
      BY <1>2, <1>4, <1>8
    <3> QED
      BY <3>1, LeastElement, Zenon
  <2> DEFINE P == Before(i)
             Q == {order[j] : j \in P}
  <2>2. P \subseteq F
    <3>1. ASSUME NEW j \in P, j \notin F PROVE FALSE
      <4>1. j \in U \ F /\ j < i /\ i \in Nat /\ j \in Nat
        BY <3>1, <2>1, <1>2, <1>4
      <4> QED
        BY <4>1, <2>1
    <3> QED
      BY <3>1
  <2>3. IsFiniteSet(P)
    <3>1. IsFiniteSet(1..Len(order))
      BY <1>4, FS_Interval
    <3>2. P \in SUBSET (1..Len(order))
      BY <1>2, <1>4
    <3> QED
      BY <3>1, <3>2, FS_Subset
  <2>4. Cardinality(P) \in Nat /\ Cardinality(P) >= emergency_fanout_max
    <3>1. ~(Cardinality(P) < emergency_fanout_max)
      BY <2>1
    <3>2. Cardinality(P) \in Nat
      BY <2>3, FS_CardinalityType
    <3> QED
      BY <3>1, <3>2, FanoutAssumption
  <2>5. P \in SUBSET DOMAIN order
    BY <1>2
  <2> HIDE DEF P
  <2>6. IsFiniteSet(Q) /\ Cardinality(Q) = Cardinality(P)
    <3> DEFINE f == [j \in P |-> order[j]]
    <3>1. f \in Bijection(P, Q)
      BY <1>1, <2>5 DEF Bijection, Injection, Surjection, IsInjective
    <3> HIDE DEF f, Q
    <3> QED
      BY <3>1, <2>3, FS_Bijection DEF ExistsBijection
  <2>7. order[1] \notin Q
    <3>1. ASSUME order[1] \in Q PROVE FALSE
      <4>1. PICK j \in P : order[1] = order[j]
        BY <3>1
      <4>2. att[r][order[j]] = "none"
        BY <1>2, <2>5 DEF P
      <4> QED
        BY <4>1, <4>2 DEF order
    <3> QED
      BY <3>1
  <2>8. order[1] \in Routes /\ order[1] \in Range(order) /\ att'[r][order[1]] # "none"
    BY <1>1, <1>4, <1>5 DEF order
  <2>9. \A x \in Q : x \in Range(order) /\ att'[r][x] # "none"
    BY <1>3, <1>5, <2>2, <2>5, Zenon
  <2> HIDE DEF Q
  <2>10. Q \union {order[1]} \in SUBSET Tried(r)'
    BY <1>6, <2>8, <2>9
  <2>11. IsFiniteSet(Tried(r)')
    <3>1. Range(order) \in SUBSET Routes
      BY <1>4, <1>5
    <3>2. Tried(r)' \in SUBSET Routes
      BY <3>1, <1>6
    <3> QED
      BY <3>2, RoutesAssumption, FS_Subset
  <2>12. /\ Cardinality(Q \union {order[1]}) = Cardinality(Q) + 1
    BY <2>6, <2>7, FS_AddElement, Zenon
  <2>13. /\ Cardinality(Q \union {order[1]}) <= Cardinality(Tried(r)')
         /\ Cardinality(Tried(r)') \in Nat
    BY <2>10, <2>11, FS_Subset, FS_CardinalityType
  <2>14. Cardinality(Tried(r)') > emergency_fanout_max
    <3> DEFINE t == Cardinality(Tried(r)')
               p == Cardinality(P)
    <3>1. t \in Nat /\ p \in Nat /\ p + 1 <= t /\ p >= emergency_fanout_max
      BY <2>4, <2>6, <2>12, <2>13
    <3> HIDE DEF t, p
    <3>2. t > emergency_fanout_max
      BY <3>1, FanoutAssumption
    <3> QED
      BY <3>2 DEF t
  <2> QED
    BY <2>14 DEF TriedEnough
<1> QED
  BY <1>7, <1>8

Undisturbed(q) ==
    /\ phase'[q] = phase[q] /\ att'[q] = att[q] /\ sent'[q] = sent[q] /\ ranked'[q] = ranked[q]
    /\ fanned_out'[q] = fanned_out[q] /\ result'[q] = result[q]

\* A step of one call is nothing to another.
LEMMA CallUndisturbed ==
    ASSUME NEW q, CallInv(q), Undisturbed(q)
    PROVE  CallInv(q)'
<1>1. Tried(q)' = Tried(q) /\ TriedEnough(q)' = TriedEnough(q)
  BY DEF Undisturbed, Tried, TriedEnough, Range
<1> QED
  BY <1>1, Zenon DEF Undisturbed, CallInv, BeforeInv, LoopInv, TrueReport

\* What is true of the call that steps, and leaves the others alone, is kept.
LEMMA OneCallSteps ==
    ASSUME ReportInv, NEW r \in Resolutions, ReportTypes', CallInv(r)',
           \A q \in Resolutions : q # r => Undisturbed(q)
    PROVE  ReportInv'
BY CallUndisturbed DEF ReportInv

\* A call returns with a result that is true of it.
LEMMA LeaveReports ==
    ASSUME ReportInv, NEW r \in Resolutions, NEW res \in Results, NEW ended,
           Leave(r, res, ended),
           res = "AllFailed" /\ emergency_fanout =>
               /\ TriedEnough(r) /\ ended = {}
               /\ \A x \in Routes : att[r][x] \in {"none", "taken"},
           res = "Overloaded" => sent[r][ranked[r][1]] = 0
    PROVE  ReportInv'
<1>1. ReportTypes
  BY DEF ReportInv
<1> DEFINE left == [a \in AttemptIds |->
                    IF a \in ended THEN "taken"
                    ELSE IF a \in OnWire(r) \ ended \/ att[r][a] \in Unsent THEN "none" ELSE att[r][a]]
<1>2. /\ phase' = [phase EXCEPT ![r] = "done"]
      /\ result' = [result EXCEPT ![r] = res]
      /\ att' = [att EXCEPT ![r] = left]
      /\ UNCHANGED <<ranked, sent, fanned_out>>
  BY Zenon DEF Leave
<1>3. left \in [AttemptIds -> AttemptStates]
  BY <1>1 DEF ReportTypes, AttemptStates
<1>4. TriedEnough(r) /\ ended = {} /\ (\A x \in Routes : att[r][x] \in {"none", "taken"}) => TriedEnough(r)'
  <2> SUFFICES ASSUME TriedEnough(r), ended = {}, \A x \in Routes : att[r][x] \in {"none", "taken"}
               PROVE  TriedEnough(r)'
    OBVIOUS
  <2>1. \A x \in Routes : left[x] = att[r][x]
    BY DEF AttemptIds, OnWire, Unsent
  <2>2. \A x \in Routes : att'[r][x] = att[r][x]
    BY <1>1, <1>2, <2>1, Zenon DEF ReportTypes
  <2>3. Range(ranked[r]) \subseteq Routes /\ ranked'[r] = ranked[r]
    BY <1>1, <1>2 DEF ReportTypes, Range
  <2>4. Tried(r)' = Tried(r) /\ Range(ranked[r])' = Range(ranked[r])
    BY <2>2, <2>3 DEF Tried
  <2> QED
    BY <2>4 DEF TriedEnough
<1> HIDE DEF left
<1>5. ReportTypes'
  BY <1>1, <1>2, <1>3 DEF ReportTypes, Phases
<1>6. phase'[r] = "done" /\ result'[r] = res /\ sent'[r] = sent[r] /\ ranked'[r] = ranked[r]
  BY <1>1, <1>2 DEF ReportTypes
<1>7. CallInv(r)'
  BY <1>4, <1>6 DEF CallInv, BeforeInv, LoopInv, TrueReport
<1>8. \A q \in Resolutions : q # r => Undisturbed(q)
  BY <1>1, <1>2 DEF ReportTypes, Undisturbed
<1> QED
  BY <1>5, <1>7, <1>8, OneCallSteps

\* A call begins with its best route.
LEMMA StartReports ==
    ASSUME ReportInv, NEW r \in Resolutions, NEW order \in RankOrders, NEW hedge, Start(r, order, hedge)
    PROVE  ReportInv'
<1>1. ReportTypes /\ BeforeInv(r)
  BY DEF ReportInv, CallInv
<1>2. order \in Seq(Routes) /\ order[1] \in Routes
  BY RankOrderFacts
<1> DEFINE begun == [a \in AttemptIds |->
                    IF a = order[1] THEN "waiting"
                    ELSE IF hedge /\ a = HedgeRoute(order) THEN "delayed" ELSE "none"]
<1>3. /\ phase[r] = "idle"
      /\ phase' = [phase EXCEPT ![r] = "running"]
      /\ ranked' = [ranked EXCEPT ![r] = order]
      /\ att' = [att EXCEPT ![r] = begun]
      /\ UNCHANGED <<sent, fanned_out, result>>
  BY Zenon DEF Start
<1>4. begun \in [AttemptIds -> AttemptStates] /\ begun[order[1]] # "none"
  BY <1>2 DEF AttemptStates, Unsent, AttemptIds
<1> HIDE DEF begun
<1>5. ReportTypes'
  BY <1>1, <1>2, <1>3, <1>4 DEF ReportTypes, Phases
<1>6. /\ phase'[r] = "running" /\ result'[r] = result[r] /\ sent'[r] = sent[r]
      /\ ranked'[r] = order /\ att'[r] = begun /\ fanned_out'[r] = fanned_out[r]
  BY <1>1, <1>3 DEF ReportTypes
<1>7. result[r] = "None" /\ ~fanned_out[r] /\ \A x \in Routes : sent[r][x] = 0
  BY <1>1, <1>3 DEF BeforeInv
<1>8. CallInv(r)'
  BY <1>4, <1>6, <1>7 DEF CallInv, BeforeInv, LoopInv, TrueReport
<1>9. \A q \in Resolutions : q # r => Undisturbed(q)
  BY <1>1, <1>3 DEF ReportTypes, Undisturbed
<1> QED
  BY <1>5, <1>8, <1>9, OneCallSteps

\* Once enough routes were tried, enough were tried as long as none is taken back.
LEMMA TriedGrows ==
    ASSUME NEW r, ranked[r] \in Seq(Routes), ranked'[r] = ranked[r], TriedEnough(r),
           \A x \in Routes : att[r][x] # "none" => att'[r][x] # "none"
    PROVE  TriedEnough(r)'
<1>1. Range(ranked[r]) \in SUBSET Routes /\ Range(ranked[r])' = Range(ranked[r])
  BY DEF Range
<1>2. Tried(r) \in SUBSET Tried(r)' /\ Tried(r)' \in SUBSET Range(ranked[r])
  BY <1>1 DEF Tried
<1>3. CASE Tried(r) = Range(ranked[r])
  BY <1>1, <1>2, <1>3, Zenon DEF TriedEnough
<1>4. CASE Cardinality(Tried(r)) > emergency_fanout_max
  <2>1. IsFiniteSet(Tried(r)')
    <3>1. Tried(r)' \in SUBSET Routes
      BY <1>1, <1>2
    <3> QED
      BY <3>1, RoutesAssumption, FS_Subset
  <2>2. /\ IsFiniteSet(Tried(r))
        /\ Cardinality(Tried(r)) <= Cardinality(Tried(r)')
    BY <1>2, <2>1, FS_Subset
  <2>3. Cardinality(Tried(r)) \in Nat /\ Cardinality(Tried(r)') \in Nat
    BY <2>1, <2>2, FS_CardinalityType
  <2> DEFINE before == Cardinality(Tried(r))
             after == Cardinality(Tried(r)')
  <2>4. before \in Nat /\ after \in Nat /\ before <= after /\ before > emergency_fanout_max
    BY <1>4, <2>2, <2>3
  <2> HIDE DEF before, after
  <2>5. after > emergency_fanout_max
    BY <2>4, FanoutAssumption
  <2> QED
    BY <2>5 DEF TriedEnough, after
<1> QED
  BY <1>3, <1>4 DEF TriedEnough

\* One attempt of a call moves on and the call does not return.
LEMMA MoveReports ==
    ASSUME ReportInv, NEW r \in Resolutions, NEW a \in AttemptIds, NEW v \in AttemptStates \ {"none"},
           att' = [att EXCEPT ![r][a] = v], UNCHANGED <<phase, ranked, fanned_out, result>>,
           sent' \in [Resolutions -> [Routes -> Nat]],
           \A q \in Resolutions : q # r => sent'[q] = sent[q],
           phase[r] \in {"running", "retrying"},
           phase[r] = "running" =>
               /\ v \in {"onwire", "taken"}
               /\ \A x \in Routes : x # a => sent'[r][x] = sent[r][x]
    PROVE  ReportInv'
<1>1. ReportTypes /\ CallInv(r)
  BY DEF ReportInv
<1>2. ReportTypes'
  BY <1>1 DEF ReportTypes
<1>3. \A q \in Resolutions : q # r => Undisturbed(q)
  BY <1>1 DEF ReportTypes, Undisturbed
<1>4. \A x \in AttemptIds : att'[r][x] = IF x = a THEN v ELSE att[r][x]
  BY <1>1 DEF ReportTypes
<1>5. BeforeInv(r)' /\ TrueReport(r)'
  BY <1>1 DEF CallInv, BeforeInv, TrueReport, ReportTypes
<1>6. ASSUME phase[r] = "running" PROVE LoopInv(r)'
  <2>1. /\ ranked[r] \in RankOrders /\ att[r][ranked[r][1]] # "none"
        /\ \A x \in Routes : att[r][x] \notin {"onwire", "taken"} => sent[r][x] = 0
        /\ fanned_out[r] => TriedEnough(r)
    BY <1>1, <1>6 DEF CallInv, LoopInv
  <2>2. ranked[r] \in Seq(Routes) /\ ranked[r][1] \in Routes /\ ranked'[r] = ranked[r]
    BY <2>1, RankOrderFacts
  <2>3. \A x \in Routes : att[r][x] # "none" => att'[r][x] # "none"
    BY <1>4 DEF AttemptIds
  <2>4. fanned_out'[r] => TriedEnough(r)'
    BY <2>1, <2>2, <2>3, TriedGrows
  <2>5. att'[r][ranked'[r][1]] # "none"
    BY <2>1, <2>2, <2>3
  <2>6. \A x \in Routes : att'[r][x] \notin {"onwire", "taken"} => sent'[r][x] = 0
    BY <1>4, <1>6, <2>1 DEF AttemptIds
  <2>7. ranked'[r] \in RankOrders
    BY <2>1, <2>2
  <2>8. RankOrders' = RankOrders
    BY DEF RankOrders
  <2> QED
    BY <2>4, <2>5, <2>6, <2>7, <2>8 DEF LoopInv
<1>7. phase[r] # "running" => LoopInv(r)'
  BY DEF LoopInv
<1>8. CallInv(r)'
  BY <1>5, <1>6, <1>7 DEF CallInv
<1> QED
  BY <1>2, <1>3, <1>8, OneCallSteps

\* A query goes out.
LEMMA SendReports ==
    ASSUME ReportInv, NEW r \in Resolutions, NEW a \in AttemptIds, Polled(r, a), Send(r, a)
    PROVE  ReportInv'
<1>1. ReportTypes /\ "onwire" \in AttemptStates \ {"none"}
  BY DEF ReportInv, AttemptStates
<1>2. /\ att' = [att EXCEPT ![r][a] = "onwire"] /\ UNCHANGED <<phase, ranked, fanned_out, result>>
      /\ sent' = [sent EXCEPT ![r][RouteOf(r, a)] = @ + 1]
  BY DEF Send
<1>3. /\ sent' \in [Resolutions -> [Routes -> Nat]]
      /\ \A q \in Resolutions : q # r => sent'[q] = sent[q]
      /\ \A x \in Routes : x # RouteOf(r, a) => sent'[r][x] = sent[r][x]
  <2> DEFINE y == RouteOf(r, a)
             mine == [sent[r] EXCEPT ![y] = @ + 1]
  <2>1. sent \in [Resolutions -> [Routes -> Nat]] /\ sent[r] \in [Routes -> Nat]
    BY <1>1 DEF ReportTypes
  <2>2. sent' = [sent EXCEPT ![r] = mine]
    BY <1>2, <2>1
  <2> HIDE DEF y
  <2>3. mine \in [Routes -> Nat] /\ \A x \in Routes : x # y => mine[x] = sent[r][x]
    <3>1. CASE y \in Routes
      BY <2>1, <3>1
    <3>2. CASE y \notin Routes
      BY <2>1, <3>2, Zenon
    <3> QED
      BY <3>1, <3>2
  <2> HIDE DEF mine
  <2> QED
    BY <2>1, <2>2, <2>3 DEF y
<1>4. phase[r] \in {"running", "retrying"} /\ (phase[r] = "running" => RouteOf(r, a) = a)
  BY RoutesAssumption DEF Polled, RouteOf
<1> QED
  BY <1>1, <1>2, <1>3, <1>4, MoveReports, Zenon

\* The retry goes on with its next route, or the call fails.
LEMMA NextRetryReports ==
    ASSUME ReportInv, NEW r \in Resolutions, NEW ended, phase[r] = "retrying", NextRetry(r, ended)
    PROVE  ReportInv'
<1>1. CASE Len(retry_routes[r]) > 1 /\ ~expired[r]
  <2>1. /\ att' = [att EXCEPT ![r][Retry] = "waiting"]
        /\ UNCHANGED <<phase, ranked, sent, fanned_out, result>>
    BY <1>1 DEF NextRetry
  <2>2. Retry \in AttemptIds /\ "waiting" \in AttemptStates \ {"none"}
    BY DEF AttemptIds, AttemptStates, Unsent
  <2>3. sent' \in [Resolutions -> [Routes -> Nat]]
    BY <2>1 DEF ReportInv, ReportTypes
  <2> QED
    BY <2>1, <2>2, <2>3, MoveReports, Zenon
<1>2. CASE ~(Len(retry_routes[r]) > 1 /\ ~expired[r])
  <2>1. Leave(r, "InvalidResponse", ended) /\ "InvalidResponse" \in Results
    BY <1>2 DEF NextRetry, Results
  <2> QED
    BY <2>1, LeaveReports
<1> QED
  BY <1>1, <1>2

\* An attempt of the loop ends without an answer and the call goes on.
LEMMA ConsumeReports ==
    ASSUME ReportInv, NEW r \in Resolutions, NEW a \in AttemptIds, NEW ended,
           phase[r] \in {"running", "retrying"}, Consume(r, a, ended)
    PROVE  ReportInv'
<1>1. att' = [att EXCEPT ![r][a] = "taken"] /\ UNCHANGED <<phase, ranked, sent, fanned_out, result>>
  BY DEF Consume
<1>2. "taken" \in AttemptStates \ {"none"} /\ sent' \in [Resolutions -> [Routes -> Nat]]
  BY <1>1 DEF AttemptStates, ReportInv, ReportTypes
<1> QED
  BY <1>1, <1>2, MoveReports, Zenon

\* A fan-out that starts nothing finds nothing left to start.
LEMMA NoFanoutLeft ==
    ASSUME NEW r, ranked[r] \in Seq(Routes), Fanout(r) = {}
    PROVE  Untried(r) = {}
<1> SUFFICES ASSUME Untried(r) # {} PROVE FALSE
  OBVIOUS
<1>1. Untried(r) \in SUBSET Nat
  <2>1. DOMAIN ranked[r] = 1..Len(ranked[r]) /\ Len(ranked[r]) \in Nat
    OBVIOUS
  <2>2. Untried(r) \in SUBSET DOMAIN ranked[r]
    BY DEF Untried
  <2> QED
    BY <2>1, <2>2
<1>2. PICK i \in Untried(r) : \A m \in Untried(r) : i <= m
  BY <1>1, LeastElement
<1>3. {j \in Untried(r) : j < i} = {}
  BY <1>1, <1>2
<1>4. Cardinality({j \in Untried(r) : j < i}) < emergency_fanout_max
  <2>1. Cardinality({j \in Untried(r) : j < i}) = 0
    BY <1>3, FS_EmptySet, Zenon
  <2> QED
    BY <2>1, FanoutAssumption
<1>5. ranked[r][i] \in Fanout(r)
  BY <1>4, Zenon DEF Fanout
<1> QED
  BY <1>5

\* A truncated answer turns the call to its retry, or ends it.
LEMMA TruncatedReports ==
    ASSUME ReportInv, NEW r \in Resolutions, NEW a \in AttemptIds, NEW order, Truncated(r, a, order)
    PROVE  ReportInv'
<1>1. ReportTypes /\ CallInv(r)
  BY DEF ReportInv
<1>2. CASE order = <<>> \/ expired[r]
  <2>1. Leave(r, "InvalidResponse", {a}) /\ "InvalidResponse" \in Results
    BY <1>2 DEF Truncated, Results
  <2> QED
    BY <2>1, LeaveReports
<1>3. CASE ~(order = <<>> \/ expired[r])
  <2>1. /\ phase[r] = "running" /\ a \in Routes
        /\ phase' = [phase EXCEPT ![r] = "retrying"]
        /\ att' = [att EXCEPT ![r][a] = "taken", ![r][Retry] = "waiting"]
        /\ UNCHANGED <<ranked, sent, fanned_out, result>>
    BY <1>3 DEF Truncated
  <2> DEFINE turned == [att[r] EXCEPT ![a] = "taken", ![Retry] = "waiting"]
  <2>2. turned \in [AttemptIds -> AttemptStates] /\ att' = [att EXCEPT ![r] = turned]
    BY <1>1, <2>1, Zenon DEF ReportTypes, AttemptStates, Unsent
  <2> HIDE DEF turned
  <2>3. ReportTypes'
    BY <1>1, <2>1, <2>2, Zenon DEF ReportTypes, Phases
  <2>4. phase'[r] = "retrying" /\ result'[r] = result[r] /\ result[r] = "None"
    BY <1>1, <2>1 DEF ReportTypes, CallInv, BeforeInv
  <2>5. CallInv(r)'
    BY <2>4 DEF CallInv, BeforeInv, LoopInv, TrueReport
  <2>6. \A q \in Resolutions : q # r => Undisturbed(q)
    BY <1>1, <2>1, <2>2 DEF ReportTypes, Undisturbed
  <2> QED
    BY <2>3, <2>5, <2>6, OneCallSteps
<1> QED
  BY <1>2, <1>3

\* Every route that was started has failed: the rest are tried, or the call gives up having
\* tried enough.
LEMMA ExhaustedReports ==
    ASSUME ReportInv, NEW r \in Resolutions, Exhausted(r)
    PROVE  ReportInv'
<1> DEFINE extra == IF emergency_fanout /\ ~fanned_out[r] THEN Fanout(r) ELSE {}
<1>1. ReportTypes /\ CallInv(r)
  BY DEF ReportInv
<1>2. /\ phase[r] = "running"
      /\ \A x \in Routes : att[r][x] \in {"none", "taken"}
  BY DEF Exhausted
<1>3. /\ ranked[r] \in RankOrders /\ att[r][ranked[r][1]] # "none"
      /\ \A x \in Routes : att[r][x] \notin {"onwire", "taken"} => sent[r][x] = 0
      /\ fanned_out[r] => TriedEnough(r)
  BY <1>1, <1>2 DEF CallInv, LoopInv
<1>4. ranked[r] \in Seq(Routes) /\ ranked[r][1] \in Routes /\ result[r] = "None"
  BY <1>1, <1>2, <1>3, RankOrderFacts DEF CallInv, BeforeInv
<1>5. CASE extra # {}
  <2> DEFINE begun == [a \in AttemptIds |-> IF a \in extra THEN "trying" ELSE att[r][a]]
  <2>1. /\ att' = [att EXCEPT ![r] = begun]
        /\ fanned_out' = [fanned_out EXCEPT ![r] = TRUE]
        /\ UNCHANGED <<phase, ranked, sent, result>>
    BY <1>5, Zenon DEF Exhausted
  <2>2. extra = Fanout(r)
    BY <1>5
  <2>3. begun \in [AttemptIds -> AttemptStates]
    BY <1>1 DEF ReportTypes, AttemptStates, Unsent
  <2>4. \A x \in AttemptIds : begun[x] = IF x \in Fanout(r) THEN "trying" ELSE att[r][x]
    BY <2>2
  <2> HIDE DEF begun, extra
  <2>5. ReportTypes'
    BY <1>1, <2>1, <2>3 DEF ReportTypes
  <2>6. /\ att'[r] = begun /\ phase'[r] = phase[r] /\ ranked'[r] = ranked[r] /\ sent'[r] = sent[r]
        /\ result'[r] = "None" /\ fanned_out'[r]
    BY <1>1, <1>4, <2>1 DEF ReportTypes
  <2>7. Fanout(r) \in SUBSET Routes
    <3>1. \A i \in DOMAIN ranked[r] : ranked[r][i] \in Routes
      BY <1>4
    <3> QED
      BY <3>1, Zenon DEF Fanout, Untried
  <2>8. /\ \A x \in Routes : att[r][x] # "none" => att'[r][x] # "none"
        /\ \A x \in Fanout(r) : att'[r][x] # "none"
    BY <2>4, <2>6, <2>7 DEF AttemptIds
  <2>9. TriedEnough(r)'
    BY <1>1, <1>3, <2>6, <2>8, FanoutEnough
  <2>10. \A x \in Fanout(r) : att[r][x] = "none"
    BY Zenon DEF Fanout, Untried
  <2>11. \A x \in Routes : att'[r][x] \notin {"onwire", "taken"} => sent'[r][x] = 0
    BY <1>2, <1>3, <2>4, <2>6, <2>10 DEF AttemptIds
  <2>12. CallInv(r)'
    BY <1>2, <1>3, <1>4, <2>6, <2>8, <2>9, <2>11 DEF CallInv, BeforeInv, LoopInv, TrueReport
  <2>13. \A q \in Resolutions : q # r => Undisturbed(q)
    BY <1>1, <2>1 DEF ReportTypes, Undisturbed
  <2> QED
    BY <2>5, <2>12, <2>13, OneCallSteps
<1>6. CASE extra = {}
  <2> DEFINE res == IF \E x \in Routes : sent[r][x] > 0 THEN "AllFailed" ELSE "Overloaded"
  <2>1. Leave(r, res, {})
    BY <1>6, Zenon DEF Exhausted
  <2>2. res = "Overloaded" => sent[r][ranked[r][1]] = 0
    <3>1. sent[r][ranked[r][1]] \in Nat
      BY <1>1, <1>4 DEF ReportTypes
    <3> QED
      BY <3>1, <1>4
  <2>3. emergency_fanout => TriedEnough(r)
    <3>1. CASE emergency_fanout /\ ~fanned_out[r]
      <4>1. Fanout(r) = {}
        BY <1>6, <3>1
      <4>2. TriedEnough(r)
        <5>1. Fanout(r) = {} => Untried(r) = {}
          BY <1>4, NoFanoutLeft
        <5>2. \A i \in DOMAIN ranked[r] : att[r][ranked[r][i]] # "none"
          BY <4>1, <5>1 DEF Untried
        <5> QED
          BY <5>2 DEF TriedEnough, Tried, Range
      <4> QED
        BY <4>2
    <3>2. CASE emergency_fanout /\ fanned_out[r]
      BY <1>3, <3>2
    <3> QED
      BY <3>1, <3>2
  <2>4. res \in Results
    BY DEF Results
  <2> HIDE DEF res
  <2> QED
    BY <1>2, <2>1, <2>2, <2>3, <2>4, LeaveReports
<1> QED
  BY <1>5, <1>6

\* Every step of the scheduler keeps what the calls report true.
LEMMA NextReportInv == ReportInv /\ [Next]_vars => ReportInv'
<1> SUFFICES ASSUME ReportInv, [Next]_vars PROVE ReportInv'
  OBVIOUS
<1>0. /\ ReportTypes /\ \A r \in Resolutions : CallInv(r)
      /\ {"Ok", "Timeout", "Overloaded", "Dropped"} \subseteq Results
  BY DEF ReportInv, Results
<1>1. ASSUME NEW r \in Resolutions, NEW order \in RankOrders, NEW hedge, Start(r, order, hedge)
      PROVE  ReportInv'
  BY <1>1, StartReports
<1>2. ASSUME NEW r \in Resolutions, NEW a \in AttemptIds, Acquire(r, a) \/ TryAcquire(r, a)
      PROVE  ReportInv'
  BY <1>2, SendReports DEF Acquire, TryAcquire
<1>3. ASSUME NEW r \in Resolutions, NEW a \in AttemptIds, ShedAttempt(r, a) PROVE ReportInv'
  <2>1. att[r][a] \in Unsent /\ Polled(r, a)
    BY <1>3 DEF ShedAttempt
  <2>2. phase[r] \in {"running", "retrying"} /\ (a = Retry <=> phase[r] = "retrying")
    BY <2>1, RoutesAssumption DEF Polled
  <2>3. CASE a = Retry
    <3>1. NextRetry(r, {})
      BY <1>3, <2>3 DEF ShedAttempt
    <3> QED
      BY <2>2, <2>3, <3>1, NextRetryReports
  <2>4. CASE a # Retry /\ a = ranked[r][1]
    <3> DEFINE res == IF expired[r] THEN "Timeout" ELSE "Overloaded"
    <3>1. Leave(r, res, {})
      BY <1>3, <2>4 DEF ShedAttempt
    <3>2. sent[r][ranked[r][1]] = 0
      <4>1. a \in Routes /\ phase[r] = "running"
        BY <2>2, <2>4 DEF AttemptIds
      <4> QED
        BY <1>0, <2>1, <2>4, <4>1 DEF CallInv, LoopInv, Unsent
    <3>3. res \in Results /\ res # "AllFailed"
      BY <1>0
    <3> HIDE DEF res
    <3> QED
      BY <3>1, <3>2, <3>3, LeaveReports
  <2>5. CASE a # Retry /\ a # ranked[r][1]
    <3>1. Consume(r, a, {})
      BY <1>3, <2>5 DEF ShedAttempt
    <3> QED
      BY <2>2, <3>1, ConsumeReports
  <2> QED
    BY <2>3, <2>4, <2>5
<1>4. ASSUME NEW r \in Resolutions, NEW a \in AttemptIds, Fail(r, a) PROVE ReportInv'
  <2>1. phase[r] \in {"running", "retrying"} /\ (a = Retry <=> phase[r] = "retrying")
    BY <1>4, RoutesAssumption DEF Fail, Polled
  <2>2. CASE a = Retry
    <3>1. NextRetry(r, {a})
      BY <1>4, <2>2 DEF Fail
    <3> QED
      BY <2>1, <2>2, <3>1, NextRetryReports
  <2>3. CASE a # Retry
    <3>1. Consume(r, a, {a})
      BY <1>4, <2>3 DEF Fail
    <3> QED
      BY <2>1, <3>1, ConsumeReports
  <2> QED
    BY <2>2, <2>3
<1>5. ASSUME NEW r \in Resolutions, NEW a \in AttemptIds, Answer(r, a) PROVE ReportInv'
  <2>1. Leave(r, "Ok", {a})
    BY <1>5 DEF Answer
  <2> QED
    BY <1>0, <2>1, LeaveReports
<1>6. ASSUME NEW r \in Resolutions, NEW a \in AttemptIds, NEW order, Truncated(r, a, order)
      PROVE  ReportInv'
  BY <1>6, TruncatedReports
<1>7. ASSUME NEW r \in Resolutions, Exhausted(r) PROVE ReportInv'
  BY <1>7, ExhaustedReports
<1>8. ASSUME NEW r \in Resolutions, TimeOut(r) \/ Drop(r) PROVE ReportInv'
  <2>1. PICK res \in {"Timeout", "Dropped"} : Leave(r, res, {})
    BY <1>8 DEF TimeOut, Drop
  <2>2. res \in Results /\ res # "AllFailed" /\ res # "Overloaded"
    BY <1>0, <2>1
  <2> QED
    BY <2>1, <2>2, LeaveReports
<1>9. ASSUME UNCHANGED <<phase, ranked, att, sent, fanned_out, result>> PROVE ReportInv'
  <2>1. \A q \in Resolutions : Undisturbed(q)
    BY <1>9 DEF Undisturbed
  <2>2. ReportTypes'
    BY <1>0, <1>9 DEF ReportTypes
  <2> QED
    BY <1>0, <2>1, <2>2, CallUndisturbed DEF ReportInv
<1>10. ASSUME NEW r \in Resolutions, Expire(r) PROVE ReportInv'
  BY <1>9, <1>10 DEF Expire
<1>11. CASE EndGrace
  BY <1>9, <1>11 DEF EndGrace
<1>12. CASE UNCHANGED vars
  BY <1>9, <1>12 DEF vars
<1> QED
  BY <1>1, <1>2, <1>3, <1>4, <1>5, <1>6, <1>7, <1>8, <1>10, <1>11, <1>12 DEF Next, Poll

\* What `resolve` reports is true of what it did, for any group, ranking and fan-out limit:
\* that everything failed only if every offered route was tried or a whole fan-out besides
\* the best one was, and overload only if the best route was never asked.
THEOREM ReportsAreTrue == Spec => []ErrorsAreTrue
<1>1. Init => ReportInv
  <2> SUFFICES ASSUME Init PROVE ReportInv
    OBVIOUS
  <2>1. ReportTypes
    BY DEF Init, ReportTypes, Phases, AttemptStates, Results
  <2> QED
    BY <2>1 DEF Init, ReportInv, CallInv, BeforeInv, LoopInv, TrueReport
<1>2. ReportInv => ErrorsAreTrue
  BY DEF ReportInv, CallInv, TrueReport, ErrorsAreTrue, AllFailedTriedAll, OverloadMeansUnsent
<1> QED
  BY <1>1, <1>2, NextReportInv, PTL DEF Spec
=============================================================================
