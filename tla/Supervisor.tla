------------------------------ MODULE Supervisor ------------------------------
(***************************************************************************)
(* Supervised tasks (tasks/mod.rs supervise, Supervisor) and the end of    *)
(* the process (runtime/mod.rs shutdown_and_join), with the database       *)
(* behind it.  A task may panic, return, or be in the middle of something  *)
(* that an abort has to wait for; the last kind is in Blocking.            *)
(***************************************************************************)
EXTENDS Storage

CONSTANTS
    Tasks,          \* the supervised tasks
    Blocking        \* those that may not yield for as long as they like

VARIABLES
    main,           \* the process: opening, up, joining, flushing, flushed, dropping, down
    forced,         \* join_all found tasks it had to abort
    shutdown,       \* the cancellation token
    sup,            \* sup[t]: where supervise is
    child           \* child[t]: the task it spawned
superVars == <<main, forced, shutdown, sup, child>>
processVars == <<superVars, storeVars>>

Up == main = "up"
Running(t) == child[t] \in {"running", "aborted"}

ProcessInit ==
    /\ StorageInit
    /\ main = "opening" /\ shutdown = FALSE /\ forced = FALSE
    /\ sup = [t \in Tasks |-> "unborn"] /\ child = [t \in Tasks |-> "none"]

SupKeeps == UNCHANGED <<main, forced, shutdown, storeVars>>

\* The head of the loop, then the spawn.
CheckCancelled(t) ==
    /\ sup[t] = "check"
    /\ sup' = [sup EXCEPT ![t] = IF shutdown THEN "returned" ELSE "spawn"]
    /\ UNCHANGED child /\ SupKeeps

SpawnTask(t) ==
    /\ sup[t] = "spawn"
    /\ sup' = [sup EXCEPT ![t] = "watching"] /\ child' = [child EXCEPT ![t] = "running"]
    /\ SupKeeps

\* The task: it returns when it sees the cancellation, or panics.  An aborted
\* task is dropped where it next yields.
TaskReturns(t) ==
    /\ child[t] = "running" /\ shutdown
    /\ child' = [child EXCEPT ![t] = "returned"]
    /\ UNCHANGED sup /\ SupKeeps

TaskPanics(t) ==
    /\ child[t] = "running"
    /\ child' = [child EXCEPT ![t] = "panicked"]
    /\ UNCHANGED sup /\ SupKeeps

TaskDropped(t) ==
    /\ child[t] = "aborted"
    /\ child' = [child EXCEPT ![t] = "none"]
    /\ UNCHANGED sup /\ SupKeeps

\* The select is biased: the outcome of the child counts only before the
\* cancellation.
JoinChild(t) ==
    /\ sup[t] = "watching" /\ ~shutdown /\ child[t] \in {"returned", "panicked"}
    /\ sup' = [sup EXCEPT ![t] = IF child[t] = "returned" THEN "returned" ELSE "backoff"]
    /\ child' = [child EXCEPT ![t] = "none"]
    /\ SupKeeps

AbortChild(t) ==
    /\ sup[t] = "watching" /\ shutdown
    /\ sup' = [sup EXCEPT ![t] = "stopping"]
    /\ child' = [child EXCEPT ![t] = IF @ = "running" THEN "aborted" ELSE "none"]
    /\ SupKeeps

\* The child has stopped, or five seconds have passed.
ChildGone(t) ==
    /\ sup[t] = "stopping" /\ ~Running(t)
    /\ sup' = [sup EXCEPT ![t] = "returned"]
    /\ UNCHANGED child /\ SupKeeps

ChildOverdue(t) ==
    /\ sup[t] = "stopping" /\ Running(t)
    /\ sup' = [sup EXCEPT ![t] = "returned"]
    /\ UNCHANGED child /\ SupKeeps

BackoffEnds(t) ==
    /\ sup[t] = "backoff"
    /\ sup' = [sup EXCEPT ![t] = IF shutdown THEN "returned" ELSE "check"]
    /\ UNCHANGED child /\ SupKeeps

-----------------------------------------------------------------------------
(* shutdown_and_join.                                                      *)

\* The database is open, or has been given up: the background tasks start.
SpawnBackground ==
    /\ main = "opening" /\ opening = "no"
    /\ main' = "up" /\ sup' = [t \in Tasks |-> "check"]
    /\ UNCHANGED <<forced, shutdown, child, storeVars>>

BeginShutdown ==
    /\ Up /\ shutdown' = TRUE /\ main' = "joining"
    /\ UNCHANGED <<forced, sup, child, storeVars>>

JoinedAll ==
    /\ main = "joining" /\ \A t \in Tasks : sup[t] = "returned"
    /\ main' = "flushing"
    /\ UNCHANGED <<forced, shutdown, sup, child, storeVars>>

\* The deadline passes: the supervisors that remain are dropped, and with
\* them their hold on the children, which are only detached.
JoinDeadline ==
    /\ main = "joining" /\ \E t \in Tasks : sup[t] # "returned"
    /\ main' = "flushing" /\ forced' = TRUE /\ sup' = [t \in Tasks |-> "returned"]
    /\ UNCHANGED <<shutdown, child, storeVars>>

\* Mutant: the flush has no deadline.
FlushWaits ==
    /\ main = "flushing" /\ writes = <<>>
    /\ main' = "flushed"
    /\ UNCHANGED <<forced, shutdown, sup, child, storeVars>>

\* flush: the queue is empty, or three seconds have passed.
Flush ==
    /\ main = "flushing"
    /\ main' = "flushed"
    /\ UNCHANGED <<forced, shutdown, sup, child, storeVars>>

\* main has returned and the runtime is dropped: every task is to end where it
\* next yields, and the drop waits for them without a deadline.
DropRuntime ==
    /\ main = "flushed" /\ main' = "dropping"
    /\ child' = [t \in Tasks |-> IF child[t] = "running" THEN "aborted" ELSE child[t]]
    /\ UNCHANGED <<forced, shutdown, sup, storeVars>>

\* The process ends: when the runtime is gone, or killed at any moment.
Kill ==
    /\ main # "down" /\ main' = "down" /\ shutdown' = FALSE /\ forced' = FALSE
    /\ sup' = [t \in Tasks |-> "unborn"] /\ child' = [t \in Tasks |-> "none"]
    /\ StorageLost
Exit == main = "dropping" /\ (\A t \in Tasks : ~Running(t)) /\ Kill

WhileDown == main = "down" /\ FileChanges /\ UNCHANGED superVars

StartAgain ==
    /\ main = "down" /\ main' = "opening"
    /\ StorageStarts /\ UNCHANGED <<forced, shutdown, sup, child>>

SuperviseStep(t) ==
    \/ CheckCancelled(t) \/ SpawnTask(t) \/ JoinChild(t) \/ AbortChild(t) \/ ChildGone(t)
    \/ BackoffEnds(t)

\* The worker is a thread of its own; the persistence task is one of the tasks.
Storing ==
    /\ \/ main = "opening" /\ (OpenStep \/ MediumTurns)
       \/ Receive \/ Apply
       \/ Up /\ (Learn \/ StartRound \/ Enqueue)
    /\ UNCHANGED superVars

ProcessNext ==
    \/ \E t \in Tasks : \/ SuperviseStep(t) \/ ChildOverdue(t)
                        \/ TaskReturns(t) \/ TaskPanics(t) \/ TaskDropped(t)
    \/ SpawnBackground \/ BeginShutdown \/ JoinedAll \/ JoinDeadline \/ Flush
    \/ DropRuntime \/ Exit \/ Kill \/ WhileDown \/ StartAgain
    \/ Storing

ProcessSpec == ProcessInit /\ [][ProcessNext]_processVars

\* The supervisors and the end of main are polled and have deadlines; a task
\* that is not blocking yields.  The disk owes nothing.
ProcessFairness ==
    /\ \A t \in Tasks : /\ WF_processVars(SuperviseStep(t)) /\ WF_processVars(ChildOverdue(t))
                        /\ t \notin Blocking => WF_processVars(TaskDropped(t))
    /\ WF_processVars(JoinedAll) /\ WF_processVars(JoinDeadline) /\ WF_processVars(Flush)
    /\ WF_processVars(DropRuntime) /\ WF_processVars(Exit)
ProcessFairSpec == ProcessSpec /\ ProcessFairness

-----------------------------------------------------------------------------
\* The variables have their shapes; a supervisor that watches has a child.
ProcessTypeOK ==
    /\ StorageTypeOK
    /\ main \in {"opening", "up", "joining", "flushing", "flushed", "dropping", "down"}
    /\ \A t \in Tasks :
          /\ sup[t] \in {"unborn", "check", "spawn", "watching", "stopping", "backoff", "returned"}
          /\ sup[t] = "watching" => child[t] # "none"

\* Whatever statements of earlier openings the process was killed in or the
\* medium refused, an opening makes good what they left: a sound file on a
\* medium that takes its statements is not put aside, and a store that is open
\* has its tables (migrate, whose statements are not one transaction).
OpeningsHeal ==
    [][(aside' => dbfile # "good") /\ (writer'.alive => db'.created)]_processVars

\* "A corrupt database is renamed aside" (storage/mod.rs, open).  So is a sound
\* one: every error of open_and_migrate is taken for damage, a full disk and a
\* locked file included.
OnlyDamagedAside == [][aside' => dbfile \notin {"good", "refusing"}]_processVars

\* What a start reads back is never older than what an earlier start could
\* have read, whichever batches were dropped, refused or lost with a killed
\* process: batches are committed in the order they were exported.
PersistedMovesForward ==
    [][aside' \/ \A t \in Tables : db'.rows[t] >= db.rows[t]]_processVars

\* A task that panicked runs again, unless the process is going down.
PanickedRunsAgain ==
    \A t \in Tasks : child[t] = "panicked" ~> (child[t] = "running" \/ ~Up)

\* Some task neither yields nor ends.
Stuck == \E t \in Blocking : Running(t)

\* A shutdown passes its joins and its flush whatever the tasks and the disk do,
\* and ends the process; all it can be left waiting for is a task that never
\* yields, in the drop of the runtime (run_daemon).
ShutdownEnds == main = "joining" ~> (main = "down" \/ (main = "dropping" /\ Stuck))

\* A panic does not end a task, and neither a panic, nor a deadline that is
\* missed, nor the disk keeps a process whose tasks yield from ending.
SupervisionHolds == PanickedRunsAgain /\ ShutdownEnds

\* "the unit is stopped by our own bounded wait rather than by SIGKILL"
\* (bin/egressdnsd.rs).  Not by that wait alone: the runtime is dropped after it.
ShutdownIsBounded == main = "joining" ~> main = "down"

\* "Wait until every queued write has been applied" (flush).  It does not
\* hold, deadlines apart: the last batch leaves the queue before it is applied.
FlushMeansApplied == main = "flushed" /\ writes = <<>> => writer.batch = NoBatch

\* "zero for a clean shutdown" (join_all).  It does not hold: a supervisor
\* returns after five seconds with its child still running, uncounted.
CleanMeansStopped ==
    main = "flushing" /\ ~forced => \A t \in Tasks : ~Running(t)
=============================================================================
