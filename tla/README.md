# TLA+ models of zdb

This directory holds TLA+ specifications of the zdb time-series storage core
(`src/core/`) and the TLC configurations that check them. `spec.md` at the
repository root describes the intended design. The modules are translated from
the source. Where the source has no implementation, they follow `spec.md`,
and PROJECT.json marks those definitions `spec_modelled`.

## 1. The system and its parts

| Part | Source | State | Operations |
|---|---|---|---|
| PageBuffer | `src/core/page_buffer.h` (declarations only) | sorted timestamps and values | update, insert, append, getTimestamp, getSize |
| PageMap | `src/core/page_map.h` (class body commented out) | per page: buffer (resident or not), version, dirty, disk extent | getPage (copy out, load if not resident, may fail), modifyPage (load, mutate, version+1, dirty), flushPage (record a persisted version, clear dirty if no newer version, may evict) |
| Transaction / commit | none in the repository (spec 4.4, 4.6) | series write lock, per-transaction snapshot index | begin, commit, abort, readonly release |
| Cursor | `src/core/cursor.cc` | `page_pos_`, `page_id_`, `page_buf_` (private copy), `page_buf_valid_`, `page_buf_pos_` | seekTo, seekToFirst, seekToLast, next, next(ts, v), get, update, insert, append |
| SQLite backend | `src/src/metrictools/storage/sqlite/sqlite_backend.cc` | one SQLite connection: tables `:last` and `:history`, open transaction, the rows of the last fetch | connect (parseURI, sqlite3_open), performOperation(insert/fetch), insertMeasurement = createTables; BEGIN; REPLACE; INSERT; COMMIT, fetchData |
| metricd config parser | `src/metricd/src/metricd/config_parser.cc` | input cursor, token buffer (`has_token_`), error flag, the ConfigList being filled | getToken/consumeToken, parse and one parser per definition and stanza |
| URI | `src/src/util/uri.cc` | parsed fields | parseURI, toString |
| HTTP ingestion, HTTP sensor, query frontend | `listen_http.cc`, `sensor_http.cc`, `query_frontend.cc` | sockets only | listen; handlers are empty |
| Headers | sensors.h, summarize.h, statsd.h, backend.h, collect.h, buffer.h, config_list.h, metric_service.h, query_operation.h | declarations | none implemented here |

How they interact. A client thread opens a transaction on a series and gets a
Cursor. The cursor reads pages through `PageMap::getPage`, which gives it a
private decoded copy. It writes through `PageMap::modifyPage(page_id_, fn)`
and then applies the same `fn` to its own copy. Commit writes the dirty pages
and publishes the new page index. It releases the per-series write lock and
then calls `flush_page` for each written page. Readonly transactions run
concurrently with the single writer of a series. The only synchronisation
between them is the page entry lock inside the page map.

On the metricd side, `SQLiteBackend::connect` parses the backend URI with
`URI::parseURI` and opens the SQLite file named by its path. After that,
`performOperation` serialises insert and fetch batches on `mutex_` over
the one connection. The config parser reads the files that name what is
collected.

What is hard about it. Several cursors interleave with a writer. Each cursor
keeps a cached copy of a page that can go stale against the shared map. Page
loads can fail in the middle of an operation. Flushes run after the write
lock is released. The in-page binary search has edge cases at ties, at
empty pages and at the end of a page.

## 2. Modules

- `PageBuffer.tla`. Pure operators on a page as a sequence of
  `[time, value]` records, with 0-based positions as in the code.
- `PageMap.tla`. The page map. Its variables are `buffer` (`NoBuffer` when
  not resident), `version`, `dirty` and `disk`. Loads from disk fail
  nondeterministically when the constant `IOFaults` is TRUE. Each map
  operation is one atomic step, because the code runs it under the entry's
  lock.
- `Database.tla`. The transaction layer. Its variables are the series `writer`
  lock and per-client `txn` records: readonly or not, plus the snapshot of
  committed pages a readonly transaction holds. It also has `committed`, a
  ghost variable holding the last committed content of each page, and
  `pending`, the `flush_page` calls not yet made. With
  `DeferredFlush = TRUE`, commit leaves its `flush_page` calls pending, as
  spec 4.6 step 4 does after the lock is released, and `FlushPending`
  performs them later in any order. With `DeferredFlush = FALSE`, they run
  inside the commit step.
- `Cursor.tla`. One `Cursor` object per client in `Cursors`, as functions
  from `Cursors` to the five fields of `cursor.cc`. Each Cursor method is one
  action and includes every page map call it makes. Those calls are:
  `SeekTo`, `SeekToFirst`, `SeekToLast`, `CursorNext` (`next()`), `NextGet`
  (`next(ts, v)`), `Update`, `Insert`, `CursorAppend`. `OpenCursor` is
  `getCursor` (begin plus the constructor). `EndCursor` ends the transaction
  by commit, abort or close and resets the cursor.
  - The seek binary search (lines 118-140) is the RECURSIVE operator
    `SearchLoop`. It returns the slot, the last probed timestamp, and whether
    it returned from inside the loop.
  - `SeekSlot` adds the final `page_buf_pos_++`. The uninitialised read of
    `actual_timestamp` on an empty page is a nondeterministic choice.
  - `size_t` arithmetic is taken modulo `SizeT`.
  - The results of `modifyPage` are ignored, as in the code. The local copy
    is modified whether the map call succeeded or not (`ModifyBoth`).
- `SQLiteBackend.tla`. One SQLite connection of the metrictools SQLite
  backend. `last_c`/`hist_c` are the committed `:last` and `:history` tables;
  `last_w`/`hist_w` are what the connection sees, including an open
  transaction; `in_txn` is whether one is open. `pc` is where
  `performOperation` is in its batch: one action per `executeQuery` of
  `insertMeasurement` (`CreateTables`, `Begin`, `Replace`, `Insert`,
  `Commit`), so a crash (`Crash`) or an I/O error (`IOError`) can fall
  between any two. SQLite's own behaviour is stated in `Rollback` and
  `Write` (autocommit outside a transaction). `mutex_` makes a batch one
  sequence of steps, so batches never interleave.
  - `Open` is `connect` (lines 21-27) with `SQLiteOpen` (sqlite3_open, which
    may fail). `backend_uri` is the URI string given to `connect`. Its
    guard requires parseURI to succeed; `connect` throws otherwise, and the
    program then has no backend (this is why the run does not check
    deadlock).
  - `has_last` is whether `:last` exists yet. `Fetch` is `fetchData`: with
    no `:last` table the SELECT fails. Otherwise it returns the rows the
    connection sees, as `sqlite_cb` collects them (`SelectRows`), and it
    can fail with an I/O error (`QueryFails`).
  - `Store` instantiates `MeasurementStore` with `last <- last_c` and
    `hist <- hist_c`. The committed tables refine the abstract store.
- `MeasurementStore.tla`. The abstract specification of a metric's storage:
  the `last` value per instance and the set `hist` of stored measurements,
  at most one per timestamp. It changes only by storing one whole
  measurement: `last` and `hist` change together.
- `URI.tla`. `parseURI` and `toString` of `src/src/util/uri.cc` as pure
  operators over a sequence of one-character strings. Each scanning for-loop
  is `FirstOf`/`FirstNotOf`. `std::stoi` is `Stoi` with 32-bit saturation
  (`OutOfRange`), and `std::to_string` is `Decimal`. The element `"D"`
  stands for the digit run `99999`, so short inputs reach ports past 65535
  and past INT_MAX. The reference is RFC 3986: the Appendix B split
  (`RFCSplit`) and the section 3.2 authority (`RFCAuthority`).
  `AgreesWithRFC3986(s)` and `RoundTrips(s)` are what the two functions
  promise of one string. SQLiteBackend checks them on its `backend_uri`.
- `ConfigTokenizer.tla`. `getToken` at character level: `SkipBlank`, the
  single-character tokens, `QuotedLoop` (escape flag, matching quote, end of
  input), `UnquotedLoop` (the delimiter set), and `Tokenize`, the tokens the
  parser reads. Because the parser peeks one token at most and `token_buf_`
  is empty whenever a new token is read, tokenizing on demand equals
  tokenizing first. It also holds the reference writer `Render`/`Meant`:
  text a config writer would produce from a list of tokens.
- `ConfigParser.tla`. The parser as pure operators over a token sequence.
  The state `[pos, err, cfg]` is the token cursor, `has_error_` and the
  `add*Config` calls made. Each `parse*` function returns its boolean with
  the state reached. `RefFile` is a reference grammar that splits the input
  into definitions and stanzas instead of reading it token by token. The
  state of the specification is the written file (`items`). Each step
  appends a chunk and re-reads the file (`ReadFile`: `input`, `result`).
- `MCCursor.tla`. Model values and two two-page series. In `MCEntries`,
  entry 0 is page `p1` holding `<<(1,0)>>` and entry 1 is page `p2` holding
  `<<(3,0)>>`. In `MCWideEntries` (the faults run), `p1` holds
  `<<(1,0), (4,0)>>` and `p2` holds `<<(6,0)>>`, so writers can insert
  into the page seekTo searches.

Correspondence with the code. Each action's guard is the method's
assertions and early returns. Its primed variables are the method's
assignments, in the order they occur. For example, `CursorNext` assigns
`page_pos` before the load, as `++page_pos_` does at line 200. Inputs are
small sets under `\E`. The caller's preconditions from spec 4.5 (insert and
append keep the page sorted) are guards, because the code does not check
them.

## 3. Runs

| Run | Config | Expect | Properties | What it shows |
|---|---|---|---|---|
| cursor_core | MCCursor.cfg | pass | TypeOK, WriterCopyCoherent | With one writer and one reader, no I/O faults and inline flushes, update, insert and append keep the writer's private copy equal to the page map's page. |
| cursor_faults | MCCursorFaults.cfg | pass | SeekLandsAtOrAfter | With failing loads and deferred flushes, on every sorted first page (`<<1,4>>`, `<<1,2,4>>`, `<<1,4,4>>`) and every target before, between, equal to and after its samples, seekTo's binary search and its final `page_buf_pos_++` land on the first slot at or after the target, and on an equal sample whenever there is one. |
| readonly_snapshot | MCSnapshot.cfg | violation | ReadonlySnapshot | A readonly cursor sees a writer's uncommitted append (spec 5). |
| scan_ends_early | MCScanEnd.cfg | violation | NoPrematureEnd | seekTo(0), then next() on page 0 leaves the cursor past the end while page 1 has samples (spec 9). |
| seek_first_page_only | MCSeekSeries.cfg | violation | SeekFindsSeries | seekTo(3) searches entry 0 although entry 1 is the one whose first timestamp is 3 (FIXME at line 101; spec 4.5). |
| seek_ties | MCSeekTies.cfg | violation | SeekFirstEqual | After insert makes page 0 `<<1,1>>`, seekTo(1) lands on slot 1 (spec 4.5 ties). |
| modify_result_ignored | MCCoherence.cfg | violation | WriterCopyCoherent | A deferred flush evicts the page under a writer. The writer's update then cannot load it, yet its copy changes. |
| deferred_flush | MCDeferredFlush.cfg | violation | NoLostCommit | A commit, then a new writer that aborts before the flush, reverts the page to its pre-commit extent. |
| sqlite_core | MCSQLiteBackend.cfg | pass | TypeOK, SuccessStored, ImplementsStore, URIAgreesWithRFC3986, URIRoundTrip | From every backend URI string of the bound, through connect, then inserts and fetches with I/O errors, rollbacks, crashes, duplicate timestamps and resubmitted batches: the committed tables implement `MeasurementStore`, a batch reported as success is in `:history`, and parseURI agrees with RFC 3986 and round-trips through toString. |
| sqlite_dangling_txn | MCSQLiteTxn.cfg | violation | FetchReadsCommitted | A batch `<<(1,i2,v2)>>` after `<<(1,i1,v1)>>` was committed: its REPLACE succeeds and its INSERT hits the unique index on time alone. `performOperation` returns without ROLLBACK, and a following fetch returns the REPLACEd `:last` value that was never committed. |
| config_parse | MCConfigParser.cfg | pass | TypeOK, TokenRoundTrip, AcceptsWellFormed, AcceptedPrefix | Over every config file of up to 10 written items, getToken reads back the tokens written, parse() accepts every well-formed file with exactly its definitions, and whatever it accepts is exactly the definitions of the longest well-formed prefix of the file (a `break` for `continue` after a newline would drop the rest). |
| config_truncated | MCConfigTruncated.cfg | violation | RejectsMalformed | A file that ends inside a definition (`unit x`) is reported as parsed. |

The findings in PROJECT.json explain each violation.

Bounds.
- Two pages and two page-index entries are the fewest that expose page
  boundaries, the last-page logic of append and seekToLast, and next()
  crossing pages.
- `MaxPageSize = 2` in the core and violation runs lets a page hold a tie
  or an in-order insert. The faults run has `MaxPageSize = 3` and the wide
  series, so the page seekTo searches has two or three samples, with a tie
  or a value between: the search probes one or two levels, and targets
  {0, 2, 3, 4, 5} fall before, between, on and after its samples.
- Timestamps {1,2,3} in the core run, and {2,4,6} in the faults run,
  include values before, between, equal to and after the initial samples.
- SeekTargets include 0 for the short cut at line 113.
- `MaxVersion = 2` allows two modifications of one page. With
  deferred flushes, that allows two flushes of different versions to race
  (the deferred_flush run). The faults run has `MaxVersion = 1`: one
  modification per page keeps its state space at 38,852 states, and the
  flush race is the deferred_flush run's question.
- `SizeT` is larger than any reachable position, so a wrap would show.
- The core run has two cursors, one allowed to write. This gives a writer
  and a concurrent reader; the series allows only one writer.
- The faults run has one cursor. It still goes through several transactions
  in sequence while pending flushes of earlier commits interleave with them.

- SQLite: two instances, two timestamps, two values, and three batches.
  Deadlock is not checked, because a URI that parseURI rejects leaves the
  program without a backend.
  `<<(1,i1,v1)>>` and `<<(1,i2,v2)>>` have the same time on different
  instances, so the unique index on time alone rejects the second.
  `<<(1,i1,v1), (2,i1,v2)>>` has two steps per batch and can fail after
  the first. Batches can be resubmitted after a failure; a resubmitted
  measurement REPLACEs `:last` with the value it already has.
- URI: every string of up to 4 elements over `: / ? # @ h 9 D` (about
  4,700 strings), plus composed URIs. A composed URI is one of the schemes
  `h:`, `:` and `?:`, then no authority, an empty `//`, or `//` with one
  of 13 authorities. Those authorities cover a host, userinfo, a second
  `@`, an empty host, an empty port, ports 0 and 9, a port followed by
  letters, a second `:`, port 99999 (past 65535) and port 9999999999 (past
  INT_MAX). Last come an optional path `/`, `/h`, `//h` or `h`, then a
  query and a fragment, each possibly empty or repeating its delimiter.
  Each string is one initial state, so
  the URI checks cost about 8,000 initial states and do not multiply the
  SQLite state space.
- Config parser: the file is at most 10 items, written in chunks. A chunk
  is a definition opener, `}`, a newline, or one stanza: well-formed, with
  an invalid argument, or cut short. This gives 1,011,736 distinct files.
  They include every definition kind, both forms of `type`, a
  `summarize_gross` list, a 5-argument `unit_name`, and strings that must
  be quoted: an escaped `"`, a `'` inside `"..."`, a backslash, an empty
  string, a blank and `(`. Ten items fit one complete `unit_name`
  definition, or two short definitions.

No symmetry is used: the pages have different contents and the cursors have
different roles.

Fairness. No specification has fairness or a liveness property. The one
candidate, that every insert `performOperation` starts returns, holds by
the shape of the code: each query step is always enabled and the loop over
a batch is finite, so nothing in this code can make it wait. Deadlock
is checked in the cursor runs: every state can still begin or end a
transaction. The SQLite run and the config runs turn it off. In the SQLite
run, a rejected backend URI leaves no backend. In the config runs, parsing
is one call on a finished file, and the file stops growing at the bound.

Refinement. `SQLiteBackend` defines `Store == INSTANCE MeasurementStore
WITH last <- last_c, hist <- hist_c`. sqlite_core checks `Store!Spec` as a
property. Every step of the connection either leaves the committed tables
alone or is one `Store(m)` step. A COMMIT publishes a REPLACE and an INSERT
together. A failed statement outside a transaction changes nothing.

## 4. Not modelled, and why

- Cursor move constructor and assignment. They relocate the object and do not
  touch the series.
- PageBuffer encode/decode. This is byte layout. Its round trip is a property
  of the missing implementation.
- Page splits, allocPage, addColdPage, deletePage. The source has no split
  code and no caller.
- The superblock and crash recovery of commit (spec 4.6 crash model). No
  code for them is in the repository (see section 5).
- The config parser's error messages (`printToken`, `StringUtil::format`,
  the always-zero line and column) and the stanza values a definition
  stores. The checks name no message, and a definition is told apart by
  kind and id. The converters defined outside the file (`parseDuration`,
  `tval_parsenumber`, the summary method names, `std::regex`) are the sets
  of words they accept.
- The SQLite backend's `ReturnCode` messages and the row formatting of
  `fetchData`. A fetch is modelled by the set of `(instance, value)` rows
  it returns.
- URI divergences found while modelling that no run checks, because the
  checked properties are stated for network URIs with a host. They are
  listed as hazards in PROJECT.json:
  - `h://` parses with path `//`, because of `begin < end - 2` at line 134.
  - A URI without a host whose path starts with `//` (`h:////x`) is
    written by toString as `h://x`, which reads back with host `x`.
  - A port past INT_MAX makes `std::stoi` throw `out_of_range` out of
    parseURI, not the `RuntimeException` of its other failures. `Stoi`
    models this exactly; no comment says which exceptions a caller
    handles, so no property states one.
  - `queryParams` calls `parseQueryString`, which is a stub returning an
    empty list. Nothing in the program calls either one.
  - Ports above 65535 are accepted.
- `escapeString` and the SQL text. `escapeString` escapes `"` with a
  backslash, which SQLite does not understand. A string holding `"` makes
  the statement fail, which the model allows for any statement. An
  instance value `x", 1) --` can also make it store a different row. That
  case is not modelled, because measurement strings are model values.
- `connect` with an empty path opens a temporary SQLite database. This is
  SQLite's behaviour, not the backend's.
- The number of instance labels. The model's instances are model values,
  and its REPLACE replaces the row of one instance, which needs the unique
  `:last` index over at least one label column. With no labels,
  createTables' index statement `ON ... ()` is a syntax error, and every
  insert fails. The label lists come from configuration code that is not
  in the repository, so this is a hazard in PROJECT.json, not a run.
- Fetch operations with several requests. `performOperation` returns the
  first failing request's error after earlier requests have added their
  responses. The model fetches the one modelled metric once.
- HTTP ingestion, sensor and query frontend code.
  - `sensor_http.cc` and `query_frontend.cc` have empty bodies.
  - `listen_http.cc` has a task lifecycle: a port check, listen, a
    `start()` that detaches the server thread, and an empty `shutdown()`.
    Its owner, `IngestionService`, is only declared, so a model would have
    to invent who calls `start`, `shutdown` and the destructor. The detached
    thread that `shutdown` never stops is listed as a hazard.
- Headers without implementations: summarize.h, sensors.h, collect.h,
  metric_service.h, config_list.h, backend.h, buffer.h, statsd.h,
  query_operation.h, and the commented-out class body of page_map.h. They
  declare interfaces whose code is not in the repository. spec.md puts
  them out of scope (section 1), so neither source nor spec gives them
  behaviour to model. The page map is modelled from spec 4.3.

## 5. Plan

Modules, in order:

1. Done: PageBuffer, PageMap, Database, Cursor, and MCCursor with the runs
   above.
2. Done: `SQLiteBackend` with `MeasurementStore` as its abstract
   specification, and the violation run for the missing
   ROLLBACK, which is observed through a fetch.
3. Done: `ConfigTokenizer` and `ConfigParser`, checked against a writer
   (tokens to text) and a reference grammar (`RefFile`). The parser accepts
   every well-formed file, but it also accepts a file that ends inside a
   definition (run config_truncated).
4. Done: `URI`, checked against RFC 3986 and for round trips, through the
   URI that `connect` parses.

Considered and not done, and why:

- A `Series` abstract specification for the Cursor/Database model. The
  committed state of a series changes only in `Commit`, which is modelled
  from the spec, so a refinement of atomic commits would hold by the
  model's construction. The part that depends on the code, snapshot reads,
  is already a finding (run readonly_snapshot).
- A superblock and commit model with crashes (spec 4.6). The repository
  has no commit or superblock code. A model written from the spec's
  sentences would satisfy "no torn commits" by construction.
- Return values of the cursor methods on an empty page. The uninitialised
  read at cursor.cc:135 and the wrap at line 181 would make seekTo and
  seekToLast return true on an empty page, but no code in the repository
  makes an empty page (only `create_series` would, and it is not here), so
  they are not listed as hazards. `SeekSlot` and `SeekToLast` still model
  both outcomes. The page skipped after a failed load (line 200) is a
  hazard without a property: a run for it needs three page-index entries
  and a violation run slot, and every slot is in use.
