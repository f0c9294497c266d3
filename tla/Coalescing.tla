----------------------------- MODULE Coalescing -----------------------------
(***************************************************************************)
(* What request coalescing promises, without channels or locks: for each   *)
(* key at most one task works at a time; whoever attaches to that work     *)
(* holds, from the instant the work is decided, the one outcome decided    *)
(* for it.  SingleFlight is shown to implement this specification.         *)
(***************************************************************************)

CONSTANTS
    Tasks,      \* the futures that join flights
    Keys,       \* cache keys
    Shared      \* the outcomes a flight can be decided with

CONSTANTS NoTask, Nothing   \* "no task" and "no outcome"

VARIABLES
    doing,      \* doing[t]: "idle", "working", "waiting" or "holding"
    about,      \* about[t]: the key t last asked for
    on,         \* on[t]: the task whose work t waits for
    held        \* held[t]: the outcome t holds

vars == <<doing, about, on, held>>

Working(k) == {w \in Tasks : doing[w] = "working" /\ about[w] = k}

Init ==
    /\ doing = [t \in Tasks |-> "idle"]
    /\ about \in [Tasks -> Keys]
    /\ on = [t \in Tasks |-> NoTask]
    /\ held = [t \in Tasks |-> Nothing]

\* Nobody works on k: t does.
Start(t, k) ==
    /\ doing[t] = "idle"
    /\ Working(k) = {}
    /\ doing' = [doing EXCEPT ![t] = "working"]
    /\ about' = [about EXCEPT ![t] = k]
    /\ UNCHANGED <<on, held>>

\* Somebody works on k and has not decided: t waits for that outcome.
Attach(t, k) ==
    /\ doing[t] = "idle"
    /\ \E w \in Working(k) : on' = [on EXCEPT ![t] = w]
    /\ doing' = [doing EXCEPT ![t] = "waiting"]
    /\ about' = [about EXCEPT ![t] = k]
    /\ UNCHANGED held

\* The tasks that get the outcome of t's work.
Party(t) == {t} \union {w \in Tasks : doing[w] = "waiting" /\ on[w] = t}

\* The work of t is decided: every task attached to it holds that outcome at once.
Decide(t, v) ==
    /\ doing[t] = "working"
    /\ doing' = [w \in Tasks |-> IF w \in Party(t) THEN "holding" ELSE doing[w]]
    /\ held' = [w \in Tasks |-> IF w \in Party(t) THEN v ELSE held[w]]
    /\ on' = [w \in Tasks |-> IF w \in Party(t) THEN NoTask ELSE on[w]]
    /\ UNCHANGED about

\* t goes away, with the outcome it holds or without one, but never in mid-work.
Leave(t) ==
    /\ doing[t] \in {"waiting", "holding"}
    /\ doing' = [doing EXCEPT ![t] = "idle"]
    /\ on' = [on EXCEPT ![t] = NoTask]
    /\ held' = [held EXCEPT ![t] = Nothing]
    /\ UNCHANGED about

Next ==
    \E t \in Tasks :
        \/ \E k \in Keys : Start(t, k) \/ Attach(t, k)
        \/ \E v \in Shared : Decide(t, v)
        \/ Leave(t)

Spec == Init /\ [][Next]_vars
=============================================================================
