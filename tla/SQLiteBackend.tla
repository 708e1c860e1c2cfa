--------------------------- MODULE SQLiteBackend ---------------------------
(***************************************************************************)
(* fnordmetric::sqlite_backend::SQLiteBackend of                          *)
(* src/metrictools/storage/sqlite/sqlite_backend.cc: one SQLite           *)
(* connection storing measurements of one metric in the tables            *)
(* "<metric>:last" (unique on the instance columns, written with REPLACE) *)
(* and "<metric>:history" (unique on time, written with INSERT).          *)
(* performOperation holds mutex_ for a whole batch, so batches do not     *)
(* interleave; each executeQuery call is one step, and the process may    *)
(* crash between any two.                                                 *)
(*                                                                        *)
(* SQLite itself is modelled by what it guarantees: statements outside a  *)
(* transaction commit at once; BEGIN inside a transaction fails; a        *)
(* constraint error undoes only the failing statement; after an I/O error *)
(* the transaction may or may not have been rolled back; a crash or       *)
(* sqlite3_close loses the open transaction.                              *)
(***************************************************************************)
EXTENDS Naturals, Sequences, URI

CONSTANTS
  Instances,  \* instance label values of the metric
  Times,      \* measurement timestamps
  Vals,       \* measurement values
  NoRow,      \* model value: no row for an instance in :last
  Batches,    \* the InsertStorageOp batches callers may submit
  IOFaults,   \* may executeQuery fail with an I/O error?
  Crashes,    \* may the process crash?
  BackendURIs, \* the backend URI strings the program may be configured with
  NoURI       \* model value: the URI string has been parsed by connect

Measurement == [time : Times, inst : Instances, value : Vals]

ASSUME /\ Batches \subseteq Seq(Measurement)
       /\ \A b \in Batches : Len(b) >= 1
       /\ IOFaults \in BOOLEAN /\ Crashes \in BOOLEAN

VARIABLES
  last_c,   \* committed (durable) :last table, instance -> value
  hist_c,   \* committed :history rows
  last_w,   \* :last as the connection sees it (includes an open transaction)
  hist_w,   \* :history as the connection sees it
  in_txn,   \* is a transaction open on the connection?
  pc,       \* where performOperation is: "down", "idle" or the next query
  batch,    \* op->getMeasurements() of the running or last operation
  idx,      \* index in batch of the measurement being inserted
  result,   \* ReturnCode of the last performOperation
  has_last, \* does the :last table exist?
  fetched,  \* the rows (or the error) the last FetchStorageOp returned
  backend_uri \* the URI string, until connect has parsed it

vars == <<last_c, hist_c, last_w, hist_w, in_txn, pc, batch, idx, result,
          has_last, fetched, backend_uri>>
\* What the steps of an InsertStorageOp leave alone.
env == <<fetched, backend_uri>>
dbState == <<last_c, hist_c, last_w, hist_w, in_txn>>

Steps == {"create", "begin", "replace", "insert", "commit"}

Cur == batch[idx]

-----------------------------------------------------------------------------
(* SQLite behaviour used by the queries                                    *)

\* The open transaction is discarded: the connection sees the committed
\* tables again.
Rollback ==
  /\ last_w' = last_c
  /\ hist_w' = hist_c
  /\ in_txn' = FALSE

\* A write statement succeeded: outside a transaction it commits at once.
Write(lw, hw) ==
  /\ last_w' = lw
  /\ hist_w' = hw
  /\ IF in_txn THEN UNCHANGED <<last_c, hist_c>>
               ELSE last_c' = lw /\ hist_c' = hw
  /\ UNCHANGED in_txn

\* executeQuery fails with SQLITE_IOERR/FULL/BUSY: the statement had no
\* effect, and an open transaction may have been rolled back by SQLite.
QueryFails ==
  /\ IOFaults
  /\ \/ UNCHANGED dbState
     \/ in_txn /\ Rollback /\ UNCHANGED <<last_c, hist_c>>

\* `if (!rc.isSuccess()) return rc;` in insertMeasurement, and performOperation
\* returning it at once: the batch ends with an error, mutex_ is released.
ReturnError ==
  /\ pc' = "idle"
  /\ result' = "error"
  /\ UNCHANGED <<batch, idx>>

\* A query of performOperation fails and the operation returns its error.
IOError == QueryFails /\ ReturnError

-----------------------------------------------------------------------------
(* Actions                                                                 *)

\* SQLiteBackend::open: sqlite3_open on the path, whose failure is
\* returned with the backend left closed.
SQLiteOpen ==
  \/ pc' = "idle" /\ UNCHANGED result
  \/ IOFaults /\ result' = "error" /\ UNCHANGED pc

\* SQLiteBackend::connect(backend_uri): the URI object exists only if
\* parseURI did not throw; connect opens its path.  The backend keeps no
\* copy of the URI, and a reconnect parses the same string again.
Open ==
  /\ pc = "down"
  /\ backend_uri /= NoURI => ParseURI(backend_uri).ok
  /\ backend_uri' = NoURI
  /\ SQLiteOpen
  /\ UNCHANGED <<dbState, batch, idx, has_last, fetched>>

\* ~SQLiteBackend: sqlite3_close, which rolls back an open transaction.
Close ==
  /\ pc = "idle"
  /\ Rollback
  /\ pc' = "down"
  /\ UNCHANGED <<last_c, hist_c, batch, idx, result, has_last, env>>

\* performOperation(InsertStorageOp*): lock mutex_ and start the loop over
\* the measurements of the batch.
PerformInsert(b) ==
  /\ pc = "idle"
  /\ batch' = b
  /\ idx' = 1
  /\ pc' = "create"
  /\ result' = "none"
  /\ UNCHANGED <<dbState, has_last, env>>

\* createTables: four CREATE ... IF NOT EXISTS statements, each of which may
\* fail and return; they leave the two tables' rows alone.
\* Once the first statement has run, the :last table exists.
CreateTables ==
  /\ pc = "create"
  /\ \/ /\ pc' = "begin"
        /\ has_last' = TRUE
        /\ UNCHANGED <<dbState, batch, idx, result>>
     \/ IOError /\ has_last' \in {has_last, TRUE}
  /\ UNCHANGED env

\* Mutant of Begin: the BEGIN statement is missing; REPLACE and INSERT then
\* run in autocommit mode.
BeginSkipped ==
  /\ pc = "begin"
  /\ pc' = "replace"
  /\ UNCHANGED <<dbState, batch, idx, result, has_last, env>>

\* executeQuery("BEGIN"): fails when a transaction is already open.
Begin ==
  /\ pc = "begin"
  /\ IF in_txn
       THEN ReturnError /\ UNCHANGED dbState
       ELSE \/ /\ in_txn' = TRUE
               /\ pc' = "replace"
               /\ UNCHANGED <<last_c, hist_c, last_w, hist_w, batch, idx, result>>
            \/ IOError
  /\ UNCHANGED <<has_last, env>>

\* REPLACE INTO :last: the row of the measurement's instance is replaced.
Replace ==
  /\ pc = "replace"
  /\ \/ /\ Write([last_w EXCEPT ![Cur.inst] = Cur.value], hist_w)
        /\ pc' = "insert"
        /\ UNCHANGED <<batch, idx, result>>
     \/ IOError
  /\ UNCHANGED <<has_last, env>>

\* Mutant of Insert: a failed INSERT's return code is ignored.
InsertIgnoringError ==
  /\ pc = "insert"
  /\ IF \E r \in hist_w : r.time = Cur.time
       THEN pc' = "commit" /\ UNCHANGED <<dbState, batch, idx, result>>
       ELSE \/ /\ Write(last_w, hist_w \cup {Cur})
               /\ pc' = "commit"
               /\ UNCHANGED <<batch, idx, result>>
            \/ IOError
  /\ UNCHANGED <<has_last, env>>

\* INSERT INTO :history: the unique index on time rejects a second row with
\* the same timestamp (a constraint error undoes only this statement).
Insert ==
  /\ pc = "insert"
  /\ IF \E r \in hist_w : r.time = Cur.time
       THEN ReturnError /\ UNCHANGED dbState
       ELSE \/ /\ Write(last_w, hist_w \cup {Cur})
               /\ pc' = "commit"
               /\ UNCHANGED <<batch, idx, result>>
            \/ IOError
  /\ UNCHANGED <<has_last, env>>

\* Mutant of Commit: the loop bound is off by one.
CommitPastEnd ==
  /\ pc = "commit"
  /\ \/ /\ last_c' = last_w
        /\ hist_c' = hist_w
        /\ in_txn' = FALSE
        /\ UNCHANGED <<last_w, hist_w, batch>>
        /\ IF idx <= Len(batch)
             THEN idx' = idx + 1 /\ pc' = "create" /\ UNCHANGED result
             ELSE pc' = "idle" /\ result' = "success" /\ UNCHANGED idx
     \/ IOError
  /\ UNCHANGED <<has_last, env>>

\* executeQuery("COMMIT"), then the next iteration of performOperation's
\* loop, or its `return ReturnCode::success()`.
Commit ==
  /\ pc = "commit"
  /\ \/ /\ last_c' = last_w
        /\ hist_c' = hist_w
        /\ in_txn' = FALSE
        /\ UNCHANGED <<last_w, hist_w, batch>>
        /\ IF idx < Len(batch)
             THEN idx' = idx + 1 /\ pc' = "create" /\ UNCHANGED result
             ELSE pc' = "idle" /\ result' = "success" /\ UNCHANGED idx
     \/ IOError
  /\ UNCHANGED <<has_last, env>>

\* sqlite_cb: every row the SELECT returns, its instance columns and its
\* value, is appended to the result list; a table is a function from
\* instances to values, NoRow where the instance has no row.
SelectRows(tbl) == {<<i, tbl[i]>> : i \in {j \in Instances : tbl[j] /= NoRow}}

\* fetchData: the SELECT of the :last table on the connection the inserts
\* use, or executeQuery's error ("no such table" before the first
\* createTables).  The row-size check cannot fail: the columns selected
\* are the table's.
FetchData ==
  \/ /\ has_last
     /\ fetched' = [ok |-> TRUE, rows |-> SelectRows(last_w)]
     /\ UNCHANGED dbState
  \/ /\ ~has_last
     /\ fetched' = [ok |-> FALSE, rows |-> {}]
     /\ UNCHANGED dbState
  \/ /\ QueryFails
     /\ fetched' = [ok |-> FALSE, rows |-> {}]

\* performOperation(FetchStorageOp*) with one request, under mutex_.
Fetch ==
  /\ pc = "idle"
  /\ FetchData
  /\ UNCHANGED <<pc, batch, idx, result, has_last, backend_uri>>

\* The process dies: the open transaction is lost, the file keeps what was
\* committed.
Crash ==
  /\ Crashes
  /\ pc /= "down"
  /\ Rollback
  /\ pc' = "down"
  /\ result' = "none"
  /\ UNCHANGED <<last_c, hist_c, batch, idx, has_last, env>>

-----------------------------------------------------------------------------
(* Specification                                                           *)

Init ==
  /\ last_c = [i \in Instances |-> NoRow]
  /\ hist_c = {}
  /\ last_w = last_c
  /\ hist_w = hist_c
  /\ in_txn = FALSE
  /\ pc = "down"
  /\ batch = <<>>
  /\ idx = 1
  /\ result = "none"
  /\ has_last = FALSE
  /\ fetched = [ok |-> TRUE, rows |-> {}]
  /\ backend_uri \in BackendURIs

Next ==
  \/ Open
  \/ Close
  \/ \E b \in Batches : PerformInsert(b)
  \/ CreateTables
  \/ Begin
  \/ Replace
  \/ Insert
  \/ Commit
  \/ Fetch
  \/ Crash

Spec == Init /\ [][Next]_vars

-----------------------------------------------------------------------------
(* Properties                                                              *)

\* Type invariant: the tables hold measurements of the configured sets and
\* the loop position stays inside the batch.
TypeOK ==
  /\ last_c \in [Instances -> Vals \cup {NoRow}]
  /\ last_w \in [Instances -> Vals \cup {NoRow}]
  /\ hist_c \subseteq Measurement
  /\ hist_w \subseteq Measurement
  /\ in_txn \in BOOLEAN
  /\ pc \in {"down", "idle"} \cup Steps
  /\ pc \in Steps => idx \in 1..Len(batch)
  /\ result \in {"none", "success", "error"}
  /\ has_last \in BOOLEAN
  /\ fetched \in [ok : BOOLEAN, rows : SUBSET (Instances \X Vals)]
  /\ backend_uri \in BackendURIs \cup {NoURI}

(***************************************************************************)
(* Refinement: the committed tables (what survives a crash or a close)   *)
(* change only as MeasurementStore allows, one whole measurement at a     *)
(* time: insertMeasurement's REPLACE into :last and INSERT into :history  *)
(* are bracketed by BEGIN and COMMIT, so no failure, rollback or crash    *)
(* between them leaves one on disk without the other, and the unique      *)
(* index on time keeps a second measurement of a timestamp out.          *)
(***************************************************************************)
Store == INSTANCE MeasurementStore WITH last <- last_c, hist <- hist_c

ImplementsStore == Store!Spec

(***************************************************************************)
(* When performOperation returns success, every measurement of its batch  *)
(* is in the committed :history table.                                    *)
(***************************************************************************)
SuccessStored ==
  result = "success" => \A k \in 1..Len(batch) : batch[k] \in hist_c

CommittedRows == SelectRows(last_c)

(***************************************************************************)
(* A FetchStorageOp returns the committed :last table: what it reports is *)
(* what a restart would read back.  fetchData runs on the connection the  *)
(* inserts use, so this fails if an insert leaves a transaction open.     *)
(***************************************************************************)
FetchReadsCommitted ==
  [][fetched' /= fetched /\ fetched'.ok => fetched'.rows = CommittedRows]_vars

(***************************************************************************)
(* The backend URI connect receives, checked on the configured string     *)
(* before connect consumes it: when it is a network URI, parseURI's       *)
(* pointer loops find the scheme, userinfo, host, port, path, query and   *)
(* fragment RFC 3986 gives it.                                            *)
(***************************************************************************)
URIAgreesWithRFC3986 ==
  backend_uri /= NoURI => AgreesWithRFC3986(backend_uri)

(***************************************************************************)
(* URI::toString writes the parsed backend URI, when it has a host, so    *)
(* that parseURI reads the same components back: separators, the '@' of  *)
(* a userinfo, and a port through std::to_string.                         *)
(***************************************************************************)
URIRoundTrip == backend_uri /= NoURI => RoundTrips(backend_uri)

====
