------------------------------ MODULE Database ------------------------------
(***************************************************************************)
(* One series of the database (spec sections 4.4 and 4.6): its page index *)
(* and page map, the per-series write lock, begin/commit/abort of         *)
(* transactions and the flushPage calls that tell the page map which      *)
(* version is persisted.  TSDB::getCursor and TSDB::commit are not part   *)
(* of the repository; these actions are modelled from the spec.           *)
(*                                                                         *)
(* The cursor code never splits a page and never builds a new page index, *)
(* so a commit republishes the same entries: Entries is constant and a    *)
(* transaction's page index snapshot is Entries itself.                   *)
(***************************************************************************)
EXTENDS PageMap

CONSTANTS
  Cursors,        \* cursor (client thread) ids, each owning one transaction
  WriterCursors,  \* the cursors that may begin a writable transaction
  NoTxn,          \* model value: the cursor has no transaction
  NoWriter,       \* model value: the series' write lock is free
  Entries,        \* the page index: <<[first_timestamp, page_id], ...>>
  InitPages,      \* the committed content of each page at open
  DeferredFlush   \* TRUE: flushPage runs after the write lock is released

ASSUME /\ WriterCursors \subseteq Cursors
       /\ Len(Entries) >= 1
       /\ DeferredFlush \in BOOLEAN

\* The snapshot field of a writable transaction.
NoSnapshot == [p \in PageIDs |-> <<>>]

VARIABLES
  writer,     \* holder of the series' write lock, or NoWriter
  txn,        \* txn[c]: [readonly, snapshot] or NoTxn
  committed,  \* committed[p]: p as published by the last commit (ghost)
  pending     \* flushPage(p, version, extent) calls not yet made

dbVars == <<writer, txn, committed, pending>>

\* The records Commit hands to flushPage.
FlushRecords(written) ==
  {[page |-> p, version |-> version[p], content |-> buffer[p]] : p \in written}

DbInit ==
  /\ buffer = [p \in PageIDs |-> NoBuffer]
  /\ version = [p \in PageIDs |-> 0]
  /\ dirty = [p \in PageIDs |-> FALSE]
  /\ disk = InitPages
  /\ writer = NoWriter
  /\ txn = [c \in Cursors |-> NoTxn]
  /\ committed = InitPages
  /\ pending = {}

\* begin(series, readonly): take a snapshot of the page index; a writable
\* transaction takes the write lock (Busy while another writer holds it).
\* `snapshot` (ghost) records what a readonly transaction is promised to
\* observe: the pages as committed when it began.
Begin(c, readonly) ==
  /\ txn[c] = NoTxn
  /\ readonly \/ (c \in WriterCursors /\ writer = NoWriter)
  /\ writer' = IF readonly THEN writer ELSE c
  /\ txn' = [txn EXCEPT ![c] = [readonly |-> readonly,
                                snapshot |-> IF readonly THEN committed
                                                        ELSE NoSnapshot]]
  /\ UNCHANGED <<committed, pending>>
  /\ UNCHANGED pmVars

\* The end of a readonly transaction.
Close(c) ==
  /\ txn[c] /= NoTxn
  /\ txn[c].readonly
  /\ txn' = [txn EXCEPT ![c] = NoTxn]
  /\ UNCHANGED <<writer, committed, pending>>
  /\ UNCHANGED pmVars

\* commit(): write every dirty page to a fresh extent, publish, release
\* the write lock, then flushPage each written page.  With DeferredFlush
\* the flushPage calls are left to FlushPending, as in spec step 4; else
\* they are made before the lock is released.
Commit(c) ==
  LET written == {p \in PageIDs : dirty[p]} IN
  /\ txn[c] /= NoTxn
  /\ ~txn[c].readonly
  /\ committed' = [p \in PageIDs |-> IF p \in written THEN buffer[p]
                                                      ELSE committed[p]]
  /\ writer' = NoWriter
  /\ txn' = [txn EXCEPT ![c] = NoTxn]
  /\ IF DeferredFlush
       THEN /\ pending' = pending \cup FlushRecords(written)
            /\ UNCHANGED pmVars
       ELSE /\ disk' = [p \in PageIDs |-> IF p \in written THEN buffer[p]
                                                            ELSE disk[p]]
            /\ dirty' = [p \in PageIDs |-> FALSE]
            /\ \E evicted \in SUBSET written :
                 buffer' = [p \in PageIDs |-> IF p \in evicted THEN NoBuffer
                                                               ELSE buffer[p]]
            /\ UNCHANGED <<version, pending>>

\* Transaction::abort() (spec 4.4): revert dirty entries to the last
\* flushed version and release the write lock.
Abort(c) ==
  /\ txn[c] /= NoTxn
  /\ ~txn[c].readonly
  /\ buffer' = [p \in PageIDs |-> IF dirty[p] THEN disk[p] ELSE buffer[p]]
  /\ dirty' = [p \in PageIDs |-> FALSE]
  /\ writer' = NoWriter
  /\ txn' = [txn EXCEPT ![c] = NoTxn]
  /\ UNCHANGED <<version, disk, committed, pending>>

\* A deferred flushPage call of an earlier commit.
FlushPending ==
  \E r \in pending :
    /\ FlushPage(r.page, r.version, r.content)
    /\ pending' = pending \ {r}
    /\ UNCHANGED <<writer, txn, committed>>

=============================================================================
