------------------------------- MODULE Cursor -------------------------------
(***************************************************************************)
(* tsdb::Cursor of core/cursor.cc: a positioned iterator over one series  *)
(* inside a transaction, holding a private decoded copy of its current    *)
(* page.  Every cursor is a client thread; cursors of different threads   *)
(* interleave at the granularity of page map operations, each of which    *)
(* runs under the page entry's lock.                                      *)
(***************************************************************************)
EXTENDS Database

LOCAL INSTANCE FiniteSetsExt

CONSTANTS
  NoPage,       \* model value: page_id_ = -1
  Uninit,       \* model value: the uninitialised actual_timestamp
  Timestamps,   \* timestamps the clients write
  SeekTargets,  \* timestamps the clients seek to (0 included)
  Values,       \* values the clients write
  MaxPageSize,  \* bound on samples per page (the code has no split)
  SizeT         \* modulus of size_t arithmetic in the model

ASSUME /\ Timestamps \subseteq Nat /\ SeekTargets \subseteq Nat
       /\ MaxPageSize \in Nat /\ SizeT > MaxPageSize + 1

VARIABLES
  page_pos,        \* page_pos_: index into the page index (0-based)
  page_id,         \* page_id_
  page_buf,        \* page_buf_: the cursor's private copy of its page
  page_buf_valid,  \* page_buf_valid_
  page_buf_pos     \* page_buf_pos_: slot in page_buf (0-based)

cursorVars == <<page_pos, page_id, page_buf, page_buf_valid, page_buf_pos>>
vars == <<pmVars, dbVars, cursorVars>>


-----------------------------------------------------------------------------
(* Helpers                                                                 *)

\* Cursor::valid(): page_map_ && page_buf_valid_ && pos < size.
Valid(c) ==
  /\ txn[c] /= NoTxn
  /\ page_buf_valid[c]
  /\ page_buf_pos[c] < GetSize(page_buf[c])

\* Cursor::get(): the sample at the cursor.
Current(c) == page_buf[c][page_buf_pos[c] + 1]

IsWriter(c) == txn[c] /= NoTxn /\ ~txn[c].readonly

\* The page id of page index entry pp (0-based).
EntryPage(pp) == Entries[pp + 1].page_id

\* `page_id_ = entries[pp].page_id; if (getPage(page_id_, &page_buf_))`:
\* the two outcomes of loading page index entry pp into the cursor.
LoadOk(c, pp) ==
  /\ page_pos' = [page_pos EXCEPT ![c] = pp]
  /\ page_id' = [page_id EXCEPT ![c] = EntryPage(pp)]
  /\ GetPageOk(EntryPage(pp))
  /\ page_buf' = [page_buf EXCEPT ![c] = LoadedBuffer(EntryPage(pp))]
  /\ page_buf_valid' = [page_buf_valid EXCEPT ![c] = TRUE]

LoadFailed(c, pp) ==
  /\ page_pos' = [page_pos EXCEPT ![c] = pp]
  /\ page_id' = [page_id EXCEPT ![c] = EntryPage(pp)]
  /\ GetPageFails(EntryPage(pp))
  /\ page_buf_valid' = [page_buf_valid EXCEPT ![c] = FALSE]
  /\ UNCHANGED page_buf

\* Mutant of ModifyBoth: the local copy is left as it was.
ModifyMapOnly(c, m) ==
  /\ \/ ModifyPageOk(page_id[c], m)
     \/ ModifyPageFails(page_id[c])
  /\ UNCHANGED page_buf

\* `modifyPage(page_id_, modify_fn); modify_fn(&page_buf_);` on the cached
\* copy: the result of modifyPage is ignored and the local copy is
\* modified either way.
ModifyBoth(c, m) ==
  /\ \/ ModifyPageOk(page_id[c], m)
     \/ ModifyPageFails(page_id[c])
  /\ page_buf' = [page_buf EXCEPT ![c] = ModifyFn(page_buf[c], m)]

SetPos(c, pos) == page_buf_pos' = [page_buf_pos EXCEPT ![c] = pos]

\* The end of Cursor::append: `modify_fn(&page_buf_); page_buf_pos_ =
\* page_buf_.getSize() - 1;` with buf the modified copy.
AppendLand(c, buf) ==
  /\ page_buf' = [page_buf EXCEPT ![c] = buf]
  /\ SetPos(c, GetSize(buf) - 1)

\* The caller's precondition for inserting timestamp t before slot pos of
\* buf (pos = size for an append): the page stays sorted.
InOrder(buf, pos, t) ==
  /\ pos > 0 => GetTimestamp(buf, pos - 1) <= t
  /\ pos < GetSize(buf) => t <= GetTimestamp(buf, pos)

\* The binary search loop of seekTo, `while (high != low)`: returns
\* <<page_buf_pos_, actual_timestamp, returned-from-inside-the-loop>>.
RECURSIVE SearchLoop(_, _, _, _, _, _)
SearchLoop(buf, t, low, high, pos, actual) ==
  IF high = low THEN <<pos, actual, FALSE>>
  ELSE LET mid == (high + low) \div 2
           a == GetTimestamp(buf, mid)
       IN IF a > t THEN SearchLoop(buf, t, low, mid, mid, a)
          ELSE IF a < t THEN SearchLoop(buf, t, mid + 1, high, mid, a)
          ELSE <<mid, a, TRUE>>

\* Mutant of SeekSlot: the final `page_buf_pos_++` is missing.
SeekSlotNoStep(buf, t, oldPos) ==
  LET r == SearchLoop(buf, t, 0, GetSize(buf), oldPos, Uninit) IN {r[1]}

\* The possible page_buf_pos_ after the in-page search of seekTo for t > 0,
\* starting from the stale page_buf_pos_ oldPos.  On an empty page the loop
\* never runs and `actual_timestamp < timestamp` reads an uninitialised
\* variable: either outcome is possible.  (seekTo then returns
\* page_buf_pos_ < size, or true from inside the loop on an equal key.)
SeekSlot(buf, t, oldPos) ==
  LET r == SearchLoop(buf, t, 0, GetSize(buf), oldPos, Uninit)
      incr == IF r[2] = Uninit THEN BOOLEAN ELSE {r[2] < t}
  IN IF r[3] THEN {r[1]}
     ELSE {IF i THEN (r[1] + 1) % SizeT ELSE r[1] : i \in incr}

-----------------------------------------------------------------------------
(* Transactions and the cursor's lifetime                                  *)

\* The state of a cursor fresh from its constructor.
Constructed(c) ==
  /\ page_pos' = [page_pos EXCEPT ![c] = 0]
  /\ page_id' = [page_id EXCEPT ![c] = NoPage]
  /\ page_buf' = [page_buf EXCEPT ![c] = <<>>]
  /\ page_buf_valid' = [page_buf_valid EXCEPT ![c] = FALSE]
  /\ page_buf_pos' = [page_buf_pos EXCEPT ![c] = 0]

\* TSDB::getCursor: begin a transaction, construct Cursor(page_map, txn).
OpenCursor(c, readonly) ==
  /\ Begin(c, readonly)
  /\ Constructed(c)

\* The transaction ends (commit, abort, close) and its cursor with it; the
\* cursor object returns to the state of the default constructor.
EndCursor(c, how) ==
  /\ CASE how = "commit" -> Commit(c)
       [] how = "abort" -> Abort(c)
       [] how = "close" -> Close(c)
  /\ Constructed(c)

-----------------------------------------------------------------------------
(* Cursor operations.  Each is one atomic step: the page map calls it     *)
(* makes are made in order with no other thread's step in between.        *)

\* Cursor::seekTo(timestamp): always loads page index entry 0 (the FIXME:
\* no search for the page), then binary-searches the slot; timestamp 0
\* short-cuts to slot 0.
SeekTo(c, t) ==
  /\ txn[c] /= NoTxn
  /\ \/ /\ LoadFailed(c, 0)
        /\ UNCHANGED page_buf_pos
     \/ /\ LoadOk(c, 0)
        /\ IF t = 0
             THEN SetPos(c, 0)
             ELSE \E pos \in SeekSlot(LoadedBuffer(EntryPage(0)), t, page_buf_pos[c]) :
                    SetPos(c, pos)
  /\ UNCHANGED dbVars

\* Cursor::seekToFirst(): reload entry 0 unless it is the cached page, then
\* slot 0.
SeekToFirst(c) ==
  /\ txn[c] /= NoTxn
  /\ IF ~page_buf_valid[c] \/ page_pos[c] /= 0
       THEN \/ LoadFailed(c, 0) /\ UNCHANGED page_buf_pos
            \/ LoadOk(c, 0) /\ SetPos(c, 0)
       ELSE /\ SetPos(c, 0)
            /\ UNCHANGED <<page_pos, page_id, page_buf, page_buf_valid, pmVars>>
  /\ UNCHANGED dbVars

\* Cursor::seekToLast(): reload the last entry unless cached, then slot
\* size - 1, which wraps around on an empty page.
SeekToLast(c) ==
  LET last == Len(Entries) - 1 IN
  /\ txn[c] /= NoTxn
  /\ IF ~page_buf_valid[c] \/ page_pos[c] /= last
       THEN \/ LoadFailed(c, last) /\ UNCHANGED page_buf_pos
            \/ /\ LoadOk(c, last)
               /\ SetPos(c, (GetSize(LoadedBuffer(EntryPage(last))) - 1) % SizeT)
       ELSE /\ SetPos(c, (GetSize(page_buf[c]) - 1) % SizeT)
            /\ UNCHANGED <<page_pos, page_id, page_buf, page_buf_valid, pmVars>>
  /\ UNCHANGED dbVars

\* Mutant of CursorNext: steps within the page while pos <= size.
CursorNextPastEnd(c) ==
  /\ txn[c] /= NoTxn
  /\ IF page_buf_valid[c] /\ page_buf_pos[c] <= GetSize(page_buf[c])
       THEN /\ SetPos(c, page_buf_pos[c] + 1)
            /\ UNCHANGED <<page_pos, page_id, page_buf, page_buf_valid, pmVars>>
       ELSE /\ page_pos[c] + 1 < Len(Entries)
            /\ \/ LoadFailed(c, page_pos[c] + 1) /\ UNCHANGED page_buf_pos
               \/ LoadOk(c, page_pos[c] + 1) /\ SetPos(c, 0)
  /\ UNCHANGED dbVars

\* Cursor::next(): step within the cached page while page_buf_pos_ < size
\* (this may leave it at size), else load the next page index entry at
\* slot 0; nothing moves at the last entry.
CursorNext(c) ==
  /\ txn[c] /= NoTxn
  /\ IF page_buf_valid[c] /\ page_buf_pos[c] < GetSize(page_buf[c])
       THEN /\ SetPos(c, page_buf_pos[c] + 1)
            /\ UNCHANGED <<page_pos, page_id, page_buf, page_buf_valid, pmVars>>
       ELSE /\ page_pos[c] + 1 < Len(Entries)
            /\ \/ LoadFailed(c, page_pos[c] + 1) /\ UNCHANGED page_buf_pos
               \/ LoadOk(c, page_pos[c] + 1) /\ SetPos(c, 0)
  /\ UNCHANGED dbVars

\* Cursor::next(timestamp, value, len) is `if (!valid()) return false;
\* get(...); next();`: a read followed by CursorNext when valid().
NextGet(c) == Valid(c) /\ CursorNext(c)

\* Model bound: no page, in the map or in a cursor's copy, grows past
\* MaxPageSize samples (the code has no page capacity check).
HasRoom(buf) == GetSize(buf) < MaxPageSize

\* Cursor::update(value): asserts a writable transaction and valid().
Update(c, v) ==
  /\ IsWriter(c)
  /\ Valid(c)
  /\ ModifyBoth(c, [kind |-> "update", pos |-> page_buf_pos[c], time |-> 0, value |-> v])
  /\ UNCHANGED <<page_pos, page_id, page_buf_valid, page_buf_pos>>
  /\ UNCHANGED dbVars

\* Cursor::insert(timestamp, value) at page_buf_pos_.  The caller keeps the
\* page sorted (it has seeked to t), which is the precondition of the spec.
Insert(c, t, v) ==
  LET pos == page_buf_pos[c] IN
  /\ IsWriter(c)
  /\ Valid(c)
  /\ InOrder(page_buf[c], pos, t)
  /\ HasRoom(LoadedBuffer(page_id[c])) /\ HasRoom(page_buf[c])
  /\ ModifyBoth(c, [kind |-> "insert", pos |-> pos, time |-> t, value |-> v])
  /\ UNCHANGED <<page_pos, page_id, page_buf_valid, page_buf_pos>>
  /\ UNCHANGED dbVars

\* Cursor::append(timestamp, value): open the last page unless cached, append
\* there and in the local copy, and stand on the new sample.  The caller
\* appends no earlier than the page's last timestamp (spec precondition).
CursorAppend(c, t, v) ==
  LET last == Len(Entries) - 1
      pg == LoadedBuffer(EntryPage(last))
      m == [kind |-> "append", pos |-> 0, time |-> t, value |-> v]
      Land(base) == AppendLand(c, ModifyFn(base, m))
  IN
  /\ IsWriter(c)
  /\ InOrder(pg, GetSize(pg), t)
  /\ HasRoom(pg)
  /\ page_buf_valid[c] /\ page_pos[c] = last => HasRoom(page_buf[c])
  /\ IF ~page_buf_valid[c] \/ page_pos[c] /= last
       THEN \/ LoadFailed(c, last) /\ UNCHANGED page_buf_pos
            \* getPage succeeds, then modifyPage on the now resident page
            \/ /\ page_pos' = [page_pos EXCEPT ![c] = last]
               /\ page_id' = [page_id EXCEPT ![c] = EntryPage(last)]
               /\ page_buf_valid' = [page_buf_valid EXCEPT ![c] = TRUE]
               /\ ModifyPageOk(EntryPage(last), m)
               /\ Land(pg)
       ELSE /\ \/ ModifyPageOk(page_id[c], m)
               \/ ModifyPageFails(page_id[c])
            /\ Land(page_buf[c])
            /\ UNCHANGED <<page_pos, page_id, page_buf_valid>>
  /\ UNCHANGED dbVars

-----------------------------------------------------------------------------
(* Specification                                                           *)

Init ==
  /\ DbInit
  /\ page_pos = [c \in Cursors |-> 0]
  /\ page_id = [c \in Cursors |-> NoPage]
  /\ page_buf = [c \in Cursors |-> <<>>]
  /\ page_buf_valid = [c \in Cursors |-> FALSE]
  /\ page_buf_pos = [c \in Cursors |-> 0]

Next ==
  \/ \E c \in Cursors :
       \/ \E ro \in BOOLEAN : OpenCursor(c, ro)
       \/ \E how \in {"commit", "abort", "close"} : EndCursor(c, how)
       \/ \E t \in SeekTargets : SeekTo(c, t)
       \/ SeekToFirst(c)
       \/ SeekToLast(c)
       \/ CursorNext(c)
       \/ NextGet(c)
       \/ \E v \in Values : Update(c, v)
       \/ \E t \in Timestamps, v \in Values : Insert(c, t, v)
       \/ \E t \in Timestamps, v \in Values : CursorAppend(c, t, v)
  \/ /\ FlushPending
     /\ UNCHANGED cursorVars

Spec == Init /\ [][Next]_vars

-----------------------------------------------------------------------------
(* Invariants and properties                                               *)

\* The samples of the initial pages and the ones the clients write.
InitSamples == UNION {{InitPages[p][i] : i \in DOMAIN InitPages[p]} : p \in PageIDs}
Samples == [time : Timestamps \cup {s.time : s \in InitSamples},
            value : Values \cup {s.value : s \in InitSamples}]

\* Type invariant: every variable of the page map, the transaction layer
\* and every Cursor ranges over its intended set.
TypeOK ==
  /\ buffer \in [PageIDs -> Seq(Samples) \cup {NoBuffer}]
  /\ version \in [PageIDs -> 0..MaxVersion]
  /\ dirty \in [PageIDs -> BOOLEAN]
  /\ writer \in Cursors \cup {NoWriter}
  /\ page_pos \in [Cursors -> 0..(Len(Entries) - 1)]
  /\ page_id \in [Cursors -> PageIDs \cup {NoPage}]
  /\ page_buf_valid \in [Cursors -> BOOLEAN]
  /\ page_buf_pos \in [Cursors -> 0..MaxPageSize]
  /\ \A c \in Cursors : page_buf[c] \in Seq(Samples)
  /\ \A c \in Cursors : Len(page_buf[c]) <= MaxPageSize

\* A page whose timestamps never decrease, as every writer keeps it.
IsSortedPage(buf) ==
  \A i, j \in 0..(GetSize(buf) - 1) : i < j => GetTimestamp(buf, i) <= GetTimestamp(buf, j)

\* Spec 4.5: the page index entry seek_to(ts) searches, the last one whose
\* first timestamp is <= ts, or entry 0 when there is none.
SeekPage(t) ==
  LET le == {pp \in 0..(Len(Entries) - 1) : Entries[pp + 1].first_timestamp <= t}
  IN IF le = {} THEN 0 ELSE Max(le)

(***************************************************************************)
(* The writer's private page copy agrees with the page map (spec 5: "the  *)
(* cursor's local buffer copy is refreshed on each modify_page").  At     *)
(* risk: update/insert/append apply modify_fn twice (map and copy) and    *)
(* seekToFirst/seekToLast/append skip the reload when the cached page is  *)
(* the one wanted; commit, abort, eviction and flushes change the map.    *)
(***************************************************************************)
WriterCopyCoherent ==
  \A c \in Cursors :
    IsWriter(c) /\ page_buf_valid[c] => page_buf[c] = LoadedBuffer(page_id[c])

(***************************************************************************)
(* A page that no writer has dirtied is served as last committed: loads   *)
(* and resident copies agree with the published commit.  At risk: commit  *)
(* writing extents and calling flushPage, abort reverting dirty entries   *)
(* to the last flushed extent, and eviction inside flushPage.             *)
(***************************************************************************)
NoLostCommit ==
  \A p \in PageIDs : ~dirty[p] => LoadedBuffer(p) = committed[p]

(***************************************************************************)
(* Spec 4.5's landing rule, ties aside: after Cursor::seekTo(ts) loads a  *)
(* page, every slot before the position holds a timestamp <= ts, every    *)
(* slot from it on one >= ts, and the position is on a sample equal to ts *)
(* whenever the page has one.  At risk: the binary search's bounds, its   *)
(* early return on an equal probe, and the `page_buf_pos_++` after the    *)
(* loop, which decides between the last probe and the slot after it.  It  *)
(* is stated for sorted pages: with IOFaults a page can become unsorted    *)
(* (see WriterCopyCoherent) and no search promises anything there.        *)
(***************************************************************************)
SeekLandsAtOrAfter ==
  [][\A c \in Cursors, t \in SeekTargets :
       SeekTo(c, t) /\ page_buf_valid'[c] /\ IsSortedPage(page_buf'[c])
         => LET buf == page_buf'[c]
                pos == page_buf_pos'[c]
                slots == 0..(GetSize(buf) - 1)
            IN /\ pos <= GetSize(buf)
               /\ \A i \in slots : i < pos => GetTimestamp(buf, i) <= t
               /\ \A i \in slots : i >= pos => GetTimestamp(buf, i) >= t
               /\ (\E i \in slots : GetTimestamp(buf, i) = t)
                    => GetTimestamp(buf, pos) = t]_vars

(***************************************************************************)
(* Spec 4.5: "Ties (==) select the first equal": seekTo(ts) lands on the  *)
(* first sample of the page whose timestamp is >= ts.                     *)
(***************************************************************************)
SeekFirstEqual ==
  [][\A c \in Cursors, t \in SeekTargets :
       SeekTo(c, t) /\ Valid(c)'
         => \A i \in 0..(page_buf_pos'[c] - 1) :
              GetTimestamp(page_buf'[c], i) < t]_vars

(***************************************************************************)
(* Spec 4.5 and scenario 3: seek_to(ts) searches the page whose index     *)
(* entry is the last with first_ts <= ts, so a timestamp stored in a      *)
(* later page of the series is found.  Cursor::seekTo sets page_pos_ = 0  *)
(* (the FIXME) and searches entry 0 whatever ts is.                       *)
(***************************************************************************)
SeekFindsSeries ==
  [][\A c \in Cursors, t \in SeekTargets :
       SeekTo(c, t) /\ page_buf_valid'[c] => page_pos'[c] = SeekPage(t)]_vars

(***************************************************************************)
(* Spec 5: "A readonly transaction always observes exactly the state of   *)
(* its snapshot page index; concurrent commits are invisible to it", and  *)
(* a writer's modifications are invisible until commit.  Every page a     *)
(* readonly cursor holds is the page as committed when it began.          *)
(***************************************************************************)
ReadonlySnapshot ==
  \A c \in Cursors :
    txn[c] /= NoTxn /\ txn[c].readonly /\ page_buf_valid[c]
      => page_buf[c] = txn[c].snapshot[page_id[c]]

(***************************************************************************)
(* Spec 9 on Cursor::next(): it must not leave the cursor past the end of *)
(* a page while later samples exist.  In that state next(ts, v) returns   *)
(* false and a scan ends early.                                           *)
(***************************************************************************)
NoPrematureEnd ==
  \A c \in Cursors :
    txn[c] /= NoTxn /\ page_buf_valid[c] /\ ~Valid(c)
      => \A pp \in (page_pos[c] + 1)..(Len(Entries) - 1) :
           GetSize(LoadedBuffer(EntryPage(pp))) = 0

=============================================================================
