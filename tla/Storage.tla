------------------------------- MODULE Storage -------------------------------
(***************************************************************************)
(* The quality database (storage/mod.rs, schema.rs) and the task that      *)
(* writes to it (tasks/maintenance.rs run_persistence): a bounded queue    *)
(* that drops what it has no room for, one worker thread that commits a    *)
(* batch at a time, and a database file that is read back at the next      *)
(* start, or put aside when it cannot be used.                             *)
(*                                                                         *)
(* The moments at which the in-memory state changes are numbered; a batch  *)
(* carries the number of the moment it was exported at, and a table holds  *)
(* that of the last batch committed to it.  SQLite is external: each       *)
(* statement, and each transaction, happens whole or not at all.           *)
(***************************************************************************)
EXTENDS Naturals, Sequences

CONSTANTS
    StoreTables,    \* the tables a persistence round exports, in order
    StoreQueueSize, \* storage.queue_size
    MaxLearned,     \* bound: changes of the in-memory state
    NoBatch

Tables == {StoreTables[i] : i \in DOMAIN StoreTables}

\* A round is a list of tables, and no batch is no batch.
ASSUME StorageAssumption ==
    /\ StoreQueueSize \in Nat \ {0}
    /\ MaxLearned \in Nat
    /\ StoreTables \in Seq(Tables)
    /\ NoBatch \notin [table : Tables, version : Nat]

VARIABLES
    learned,        \* the moment
    flusher,        \* run_persistence: the tables it still exports in this round
    writes,         \* the channel of WriteBatch
    writer,         \* the worker thread: alive or not, and the batch in its hands
    opening,        \* the step of Storage::open, "no" outside it
    retrying,       \* this opening has put a file aside and works on a new one
    db,             \* the file: its tables, whether they exist, the version row
    dbfile,         \* "good", "damaged", "newer" (a later build's), "stuck" (no path to
                    \* it), "refusing" (sound, on a medium that is full, locked, read-only)
    aside           \* ghost: the database was put aside in this step
storeVars == <<learned, flusher, writes, writer, opening, retrying, db, dbfile, aside>>

NewDatabase == [rows |-> [t \in Tables |-> 0], created |-> FALSE, version |-> 0]
Batch(t) == [table |-> t, version |-> learned]
NoWorker == [alive |-> FALSE, batch |-> NoBatch]
StoreKeeps == UNCHANGED <<learned, flusher, writes>>

StorageInit ==
    /\ writes = <<>> /\ flusher = <<>> /\ learned = 0 /\ aside = FALSE
    /\ db = NewDatabase /\ dbfile = "good" /\ writer = NoWorker
    /\ opening = "check" /\ retrying = FALSE

-----------------------------------------------------------------------------
(* Storage::open.                                                          *)

\* Whatever open_and_migrate fails with, the file is put aside and the
\* opening starts over on a new one, once.
Quarantine ==
    /\ ~retrying /\ retrying' = TRUE
    /\ db' = NewDatabase /\ dbfile' \in {"good", "refusing"} /\ opening' = "check"
    /\ aside' = TRUE /\ UNCHANGED writer /\ StoreKeeps

\* The new file fails as well, or the old one cannot be renamed: the process
\* goes on without a store.
GiveUp ==
    /\ opening' = "no" /\ retrying' = FALSE
    /\ aside' = FALSE /\ UNCHANGED <<writer, db, dbfile>> /\ StoreKeeps

\* Any statement of an opening may be refused.
StatementFails == opening # "no" /\ dbfile = "refusing" /\ (Quarantine \/ GiveUp)

\* The medium begins to refuse, or to accept again, between two statements.
MediumTurns ==
    /\ opening # "no"
    /\ \/ dbfile = "good" /\ dbfile' = "refusing"
       \/ dbfile = "refusing" /\ dbfile' = "good"
    /\ aside' = FALSE /\ UNCHANGED <<writer, opening, retrying, db>> /\ StoreKeeps

\* The directory, quick_check and the version row.
CheckFile ==
    /\ opening = "check"
    /\ \/ /\ dbfile \in {"good", "refusing"}
          /\ opening' = (IF db.version = 0 THEN "create" ELSE "delete")
          /\ aside' = FALSE /\ UNCHANGED <<writer, retrying, db, dbfile>> /\ StoreKeeps
       \/ dbfile \in {"damaged", "newer"} /\ (Quarantine \/ GiveUp)
       \/ dbfile = "stuck" /\ GiveUp

\* Mutant: the tables are created without IF NOT EXISTS.
CreateTablesOnce ==
    /\ opening = "create"
    /\ IF db.created THEN Quarantine
       ELSE /\ opening' = "delete" /\ db' = [db EXCEPT !.created = TRUE]
            /\ aside' = FALSE /\ UNCHANGED <<writer, retrying, dbfile>> /\ StoreKeeps

\* The migrations from the recorded version on; each creates what is missing.
CreateTables ==
    /\ opening = "create" /\ opening' = "delete"
    /\ db' = [db EXCEPT !.created = TRUE]
    /\ aside' = FALSE /\ UNCHANGED <<writer, retrying, dbfile>> /\ StoreKeeps

\* The version row is deleted, then inserted: two statements.
DeleteVersion ==
    /\ opening = "delete" /\ opening' = "insert"
    /\ db' = [db EXCEPT !.version = 0]
    /\ aside' = FALSE /\ UNCHANGED <<writer, retrying, dbfile>> /\ StoreKeeps

\* The worker thread is started last, and may not be.
InsertVersion ==
    /\ opening = "insert" /\ opening' = "no" /\ retrying' = FALSE
    /\ db' = [db EXCEPT !.version = 1]
    /\ writer' \in {[alive |-> TRUE, batch |-> NoBatch], NoWorker}
    /\ aside' = FALSE /\ UNCHANGED dbfile /\ StoreKeeps

OpenStep == CheckFile \/ CreateTables \/ DeleteVersion \/ InsertVersion \/ StatementFails

\* The process ends: the queue and the worker go with it.
StorageLost ==
    /\ writes' = <<>> /\ flusher' = <<>> /\ writer' = NoWorker /\ opening' = "no"
    /\ retrying' = FALSE /\ aside' = FALSE /\ UNCHANGED <<learned, db, dbfile>>

StorageStarts ==
    /\ writes' = <<>> /\ flusher' = <<>> /\ writer' = NoWorker /\ opening' = "check"
    /\ retrying' = FALSE /\ aside' = FALSE /\ UNCHANGED <<learned, db, dbfile>>

\* What may happen to the file while the process is down.
FileChanges ==
    /\ dbfile' \in {"good", "damaged", "newer", "stuck", "refusing"} \ {dbfile}
    /\ aside' = FALSE /\ UNCHANGED <<learned, flusher, writes, writer, opening, retrying, db>>

-----------------------------------------------------------------------------
(* The writes.                                                             *)

Learn ==
    /\ learned < MaxLearned /\ learned' = learned + 1 /\ aside' = FALSE
    /\ UNCHANGED <<flusher, writes, writer, opening, retrying, db, dbfile>>

StartRound ==
    /\ flusher = <<>> /\ flusher' = StoreTables /\ aside' = FALSE
    /\ UNCHANGED <<learned, writes, writer, opening, retrying, db, dbfile>>

\* A table is exported and its batch enqueued, or dropped.
Enqueue ==
    /\ flusher # <<>> /\ flusher' = Tail(flusher)
    /\ writes' = IF writer.alive /\ Len(writes) < StoreQueueSize
                 THEN Append(writes, Batch(Head(flusher))) ELSE writes
    /\ aside' = FALSE
    /\ UNCHANGED <<learned, writer, opening, retrying, db, dbfile>>

\* Mutant: the newest batch first.
ReceiveNewest ==
    /\ writer.alive /\ writer.batch = NoBatch /\ writes # <<>>
    /\ writer' = [writer EXCEPT !.batch = writes[Len(writes)]]
    /\ writes' = SubSeq(writes, 1, Len(writes) - 1) /\ aside' = FALSE
    /\ UNCHANGED <<learned, flusher, opening, retrying, db, dbfile>>

Receive ==
    /\ writer.alive /\ writer.batch = NoBatch /\ writes # <<>>
    /\ writer' = [writer EXCEPT !.batch = Head(writes)]
    /\ writes' = Tail(writes) /\ aside' = FALSE
    /\ UNCHANGED <<learned, flusher, opening, retrying, db, dbfile>>

\* schema::apply: committed, or refused by the disk, which is only logged.
Apply ==
    /\ writer.batch # NoBatch
    /\ writer' = [writer EXCEPT !.batch = NoBatch] /\ aside' = FALSE
    /\ \/ db' = [db EXCEPT !.rows[writer.batch.table] = writer.batch.version]
       \/ UNCHANGED db
    /\ UNCHANGED <<learned, flusher, writes, opening, retrying, dbfile>>

\* The variables have their shapes, the queue its bound, and a batch was
\* exported before it is queued.
StorageTypeOK ==
    /\ learned \in 0..MaxLearned /\ db.rows \in [Tables -> 0..MaxLearned]
    /\ Len(writes) <= StoreQueueSize
    /\ \A i \in DOMAIN writes : writes[i].table \in Tables /\ writes[i].version <= learned
    /\ writer.alive => /\ opening = "no" /\ dbfile \in {"good", "refusing"}
                       /\ db.created /\ db.version = 1
    /\ retrying => opening # "no"
    /\ ~writer.alive => writes = <<>> /\ writer.batch = NoBatch
=============================================================================
