------------------------------ MODULE PageMap ------------------------------
(***************************************************************************)
(* The page map of spec section 4.3: page id -> entry holding an optional *)
(* resident buffer, a version, a dirty flag and the extent on disk.  The  *)
(* class body of core/page_map.h is commented out in the repository, so   *)
(* the operations are modelled from the spec.  The disk extent an entry   *)
(* points at is represented by the content a load decodes from it.        *)
(* Each operation runs under the entry's lock, so it is one atomic step.  *)
(***************************************************************************)
EXTENDS Naturals, Sequences, PageBuffer

CONSTANTS
  PageIDs,     \* the ids of the pages of the series
  NoBuffer,    \* model value: the entry has no resident buffer
  MaxVersion,  \* bound on the per-entry version counter
  IOFaults     \* TRUE: a load from the backing file may fail

ASSUME MaxVersion \in Nat /\ IOFaults \in BOOLEAN

VARIABLES
  buffer,   \* buffer[p]: the resident PageBuffer of p, or NoBuffer
  version,  \* version[p]: incremented by every successful modifyPage
  dirty,    \* dirty[p]: modified since the last flushPage of its version
  disk      \* disk[p]: the page as decoded from the extent at disk_addr

pmVars == <<buffer, version, dirty, disk>>

\* The buffer getPage and modifyPage work on: the resident one, or the one
\* loadPage decodes from the entry's extent.
LoadedBuffer(p) == IF buffer[p] = NoBuffer THEN disk[p] ELSE buffer[p]

\* loadPage fails only for a page that is not resident and only when the
\* file may return an I/O error.
LoadFails(p) == IOFaults /\ buffer[p] = NoBuffer

\* getPage(id, out) returning true: load if needed, install the buffer;
\* the caller receives LoadedBuffer(p) as its private copy.
GetPageOk(p) ==
  /\ buffer' = [buffer EXCEPT ![p] = LoadedBuffer(p)]
  /\ UNCHANGED <<version, dirty, disk>>

\* getPage(id, out) returning false: the load failed, nothing changes.
GetPageFails(p) ==
  /\ LoadFails(p)
  /\ UNCHANGED pmVars

\* modifyPage(id, fn) with fn returning true: ensure residency, apply fn,
\* mark dirty, bump the version.
ModifyPageOk(p, m) ==
  /\ version[p] < MaxVersion
  /\ buffer' = [buffer EXCEPT ![p] = ModifyFn(LoadedBuffer(p), m)]
  /\ version' = [version EXCEPT ![p] = @ + 1]
  /\ dirty' = [dirty EXCEPT ![p] = TRUE]
  /\ UNCHANGED disk

\* modifyPage(id, fn) returning false: the page could not be loaded.
ModifyPageFails(p) ==
  /\ LoadFails(p)
  /\ UNCHANGED pmVars

\* flushPage(id, version, addr, size): the entry now points at the extent
\* holding `content`; dirty is cleared iff no newer version was written
\* since, and then the buffer may be evicted (no pins are held).
FlushPage(p, v, content) ==
  /\ disk' = [disk EXCEPT ![p] = content]
  /\ IF version[p] = v
       THEN /\ dirty' = [dirty EXCEPT ![p] = FALSE]
            /\ \E evict \in BOOLEAN :
                 buffer' = [buffer EXCEPT ![p] = IF evict THEN NoBuffer ELSE @]
       ELSE UNCHANGED <<dirty, buffer>>
  /\ UNCHANGED version

=============================================================================
