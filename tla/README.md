# newsbaoter in TLA+

newsbaoter is a terminal feed reader in C: it downloads feeds with libcurl,
turns each into one dialect of XML with libxslt, keeps the articles in an
sqlite database, lists them with ncurses and pipes an article to a pager.  It
runs one thread.  What makes it hard to test is not parallelism but re-entry:
one scheduler function is called over and over while transfers are under way,
tables are rewritten statement by statement with the program free to end in
between, and the rows on the screen are a snapshot that keys go on using after
the tables have changed.

This directory models these parts, the select loop that ties them together, the
processes and the files they need, checks them with TLC on small instances, and
proves with TLAPS, for every value of the constants, the safety properties that
TLC checks of each of them, some under a condition (section 4).
Line numbers are those of this commit; `src/...` is the repository, whose C files
are in `src/src/`.

    tlc -config MCRunLoop.cfg RunLoop.tla        # the other runs: section 3
    tlapm RunLoopProofs.tla                      # the other proofs: section 4

## 1. The system

| component | files | state it keeps | operations |
|---|---|---|---|
| download scheduler | `httpfetch.c` | `struct http_data` (the multi handle `cm`, handles, buffers and the URL of each slot, `newentry`), `n_httperr` of each URL | `handle_urls`, called until a cycle is over |
| document import | `xmlproc.c` | a document while it is received and imported, `feedid` | `xmlproc_parse_chunk`, `xmlproc_finish` |
| article cache | `sql/create.c`, writing part of `sql/viewio.c` | tables Feed and Entry | feed and entry upsert, `cache_init_cleanup`, `cache_cleanup_old`, read marks |
| list window | `ui/view.c`, reading part of `sql/viewio.c` | `struct mainwindow` (page, context, rows), `cursor_i`, `content_bw_max`, the backups of page and cursor, `newsize` | one handler per key, `update_view`, the SIGWINCH handler |
| select loop | `ui/view.c` `run_ui` | `last_time`, the beep request | waits for a key, a socket or the reload time |
| key bindings, string tables | `ui/keys.c`, `hash.c` | open-addressing tables, the list of operations | bind, unbind, look up, list in the help |
| pager and downloader processes | `ui/util.c`, the writing part of `sql/viewio.c` | a child process and a pipe | fork, mark, write, wait |
| configuration, URL list | `config.c`, `urlparse.c` | `struct conf_read`, `global_config`, the URL list | read once at the start, line by line |
| start-up | `newsbaoter.c` | none | calls the others in a fixed order |
| stylesheets | `src/xsl/*` | none | one per feed dialect |

How they interact.  `run_ui` waits in `select` for the keyboard and libcurl's
sockets.  A key calls a handler; a socket or a timeout calls `handle_urls`, as
the reload-all key does.  `handle_urls` drives libcurl, whose write callback
feeds the document parser; a batch that is over calls `xmlproc_finish`, which
imports the document in one go.  The return value of `handle_urls` (-1 still
running, 0 nothing new, 1 news) makes the loop beep and regenerate the rows.
Handlers read the rows' ids and write read marks into the same tables.  All
calls are synchronous; SIGWINCH is the only asynchronous event, and its handler
sets one flag that the next `update_view` looks at.

What is hard, and what makes each part correct:

* **Scheduler** - re-entry with a batch half done; error counts that decide
  between a retry and giving up and that outlive the cycle; slots and buffers
  reused.  Correct: each URL is tried, imported at most once, retried as
  configured, within the parallel limit; buffers are freed once; a cycle ends,
  and is reported over only when nothing is left.
* **Import and cache** - no transactions, no UNIQUE constraints, results
  ignored, the program ending between statements.  Correct: no duplicates or
  orphans, read marks survive, only read, old and long missing articles go,
  news is reported when there is news.
* **List window** - page, cursor, context and last row have to agree after any
  sequence of keys; a list may come out empty; the cache changes and the
  terminal is resized between a row's drawing and its use.  Correct: the cursor
  is inside, rows are those of the page, leaving returns to where one was.
* **Select loop** - a reload has to start and to end though keys keep coming;
  two callers advance it, with what they remember of `select` growing stale.
  Correct: reloads recur and end, their news is announced by whoever ends them.
* **Tables** - searches past deleted entries, limits.  Correct: what was bound is
  found, what is found is listed.
* **Processes** - two processes and a pipe, failures, signals, early ends.  Correct:
  the pager gets the page in order, the program comes back and leaves nothing.
* **Configuration** - lines cut anywhere by reads and by a buffer that moves and
  grows; the end of a file.  Correct: the lines and words of the file are read.

`PROJECT.json` lists every hazard at its line, with the properties that cover it
or why none does.

## 2. Modules

| module | what it is |
|---|---|
| `ReloadCycle` | abstract: what a reload promises the user; `Steps` is the safety part, `Spec` adds that reloads end |
| `HttpFetch` | the scheduler |
| `RunLoop` | the select loop, composed with `HttpFetch` (EXTENDS); maps to `ReloadCycle` (`ImplementsReloadCycle`) |
| `ArticleStore` | abstract: what the cache promises the reader |
| `Cache` | tables and their creation, import, read marks; maps to `ArticleStore` (`ImplementsArticleStore`) |
| `MCCache` | its symmetry |
| `MainWindow`, `MCMainWindow` | the list window over an abstract cache, its instances |
| `PagerPipe`, `MCPagerPipe` | pager and downloader processes, an instance |
| `HashTable`, `MCHashTable` | key bindings and the help, instances |
| `ConfReader` | reader of the configuration and the URL file |
| `HttpFetchProofs`, `RunLoopProofs`, `CacheProofs`, `MainWindowProofs`, `PagerPipeProofs`, `HashTableProofs`, `ConfReaderProofs` | theorems and proofs about the module of that name |
| `Extrema` | two lemmas about the least and the greatest element of a finite set of numbers |

Operators whose name is that of another one and a suffix (`Found_None`,
`NextItem_Past`) are mutants: plausible mistakes in the code the operator
models.  `PROJECT.json` says which property each of them breaks.

### HttpFetch

One call of `handle_urls` is one step; its cases are `StartCycle` (no `cm`:
reset the counts, load), `StillRunning` (the batch is not over) and `NextBatch`
(settle the batch, load the next or clean up).  Loading, advancing and settling
are operators on `n_httperr` and on `xfer`, which has the transfer of each URL
in the batch ("none", "running", or how it ended).  The slots 0..anp-1 are the
set of URLs with a transfer: nothing reads their order.  libcurl, the servers
and the parser are the choice of each transfer's end (`Outcome`), so what a
call does is the set of everything they may do between two calls.  `tries` and
`got` are history: the downloads of each URL, up to `MaxTries` (the only bound;
more than the code reaches for a URL it never imports), and the URLs imported.

### RunLoop

The state of `HttpFetch`, where `run_ui` is (`phase`), the time since `last_time`
up to `WaitTime`, whether `select` had more than the key (`ready`, which is
`sret-found>0` and lives across the exit question), and whether the last step
beeped.  `Woken` is `select` returning for a socket or a time-out, `Fetch` the call
of `handle_urls` at the end of a pass, `RefreshAll` the reload-all key, which makes
a call of its own and may be followed by `Fetch` if a socket was ready beside the
key; `Start` is the call before the loop, whose result is dropped.  Keys that only
change the list do nothing to these variables.  `Tick` is the clock.

Fairness (`LoopFairness`): WF of `Start`, `Fetch`, `Tick` and `Answer` - the program
runs on, time passes, the question is answered.  SF of `Woken`: `select` does not
return for keys alone for ever, though it may do so any number of times; a user who
leans on a key for ever is the exception the code makes possible.  SF of
`FetchEndsBatch`, the call that finds the whole batch over: transfers end some day.
The code does not make them (`CURLOPT_TIMEOUT` is not set, httpfetch.c:236-242), so
this is an assumption about servers; it is strong because a call may find the batch
still running any number of times, and it is about calls of the loop only, since
a user may never press reload-all.

Left out: a clock set back (view.c:511 takes the present for `last_time`), and the
result -3 of `http_get_fds`, a libcurl error for which the time-out would be that of
a waiting loop.

### Cache

The state is the number of tables and views, the tables Feed and Entry, the clock,
how far an import is, the id of its feed and the first count of unread articles.
One step is one SQL statement that writes (reads that only feed the next statement
belong to it): `CreateTable` for each of `create_db`, then `UpdateFeed`,
`InitCleanup`, `UpdateEntry` for each entry of the document in any order and
number, `FinishImport` (`cache_cleanup_old` and the second count).  `Exit` is
the end and restart of the program between two statements; a start that finds a
file does not look what is in it, so tables that are missing stay missing.
`MayFail` lets sqlite refuse the statements whose result is ignored; upserts that
fail call exit(2), which is `Exit`, or no step at all before anything was written.
Marks of the user happen between imports only, as there is one thread.  An article
is what a document may list; the unique id is the article, or, outside `Guided`, a
new one at each import.  Titles, links and contents are left out.  `listed`,
`known`, `missed` and `disturbed` are history; `disturbed` says whether an import
ever ended early or a statement ever failed, and the properties about exact moments
(`GracePeriod`, `StaleGone`, `NewsReported`) are stated for when it did not.

Bounds: `MaxEntryID` rows, `MaxNow` clock readings, and `Current` stops counting
at -CyclesUntilDelete, below which no statement tells two values apart.

### MainWindow

The state is table Entry as the lists see it (feed, date and read mark of each
EntryID in use), `struct mainwindow` with the statics of view.c in one record, the
`newsize` flag and the terminal's height.  Each handler is an action that ends
in `Ok` (KH_RET_OK) or `Update` (KH_RET_UPDATE and the update_view after it,
which performs a resize that is due and recounts the rows).  `Regenerated` is
`request_list_update`, which changes nothing when the list is empty; each
handler does with that result what the code does, often nothing.  A row that
becomes blank keeps the id it had, and keys on it use that id; rows that a
resize adds and cursors beyond the rows read any id.  `CycleDone` is the update at
the end of a reload.  `Import` is what a statement of an import, step by step in
`Cache`, does to the rows the lists see: it stores a new article of any feed and
date, under the id after the highest in use (`IsNewID`; the key column has no
AUTOINCREMENT, create.c:34), so that a deleted article's id may come back as an
article of another feed; it stores an article anew, with another date; or it deletes
a read one.  Ids and dates are independent; what ORDER BY makes of a set of rows,
`Ascending` or `NewestFirst`, has in place i the row with i-1 others before it.
Of two articles of one date sqlite may return either first; the model has the one
with the lower id, in which order the table is read.

### PagerPipe

Two processes.  The parent goes through `pipe_to_process`, the mark of
`cache_write_entry_field` (not for the help), its writes, the close and
`wait_for_process`; the child closes its copies, calls `execvp` and becomes the
pager or exits.  The pipe is a sequence of at most `Capacity` units; a page is
`Writes`, the lengths of its write calls in units, which go in one at a time when
there is room, so that reads and writes interleave.  `WriteCutShort` is SIGWINCH while
a write waits that has already transferred something: the handler was installed by
`signal` without _XOPEN_SOURCE in view.c, so calls are restarted, but a write with
a part done returns the part.  `BrokenPipe` is SIGPIPE, whose action the program
leaves at its default.  `ForkFails` is everything the callers do with a pid of -1.
`got` and `cut` are history.

Fairness: both processes run; the pager leaves some time after it has seen the end
of the page.  It need not read to the end, and nobody has to open another page.

Left out: `pipe` failing, and what writing to a descriptor that was never set
does to another file (after a failed fork `fd` is uninitialised).

### HashTable

`Find` is `find_hash` with the probe sequence as a set of probes and its least
element; setting and unsetting a name are the actions while the configuration is
read, `Configured` is its end, where the operation download may lose its handler;
looking a name up and the help page are operators.  The names fit the table
(assumption): a full table makes the code index with -1, for which nothing can be
said.

### ConfReader

The buffer's cells hold positions in the file, not bytes, so that a byte that is
lost, doubled or stale shows; NUL, the newline appended to a last line and memory
never written are cells of their own.  The actions are the ways through
`read_config_line`; `check_for_line` and `move_buf` are operators on the buffer.
Bytes are letters, blanks or newlines; every file up to `MaxFile` is an initial
state.  A read returns all there is or fills the buffer, as one of a file does.
`Words`, `Args` and `Urls` are what `get_line_word`, `copy_strarr` and `urlparse`
make of the lines returned; the reference they are compared with, `Runs`, takes the
maximal stretches of bytes that are no newlines, or no blanks, each in the place
that the number of stretches beginning before it gives.

Left out: `read` failing, upon which `read_config_line` ends the program, as
it does when memory runs out.

## 3. Runs

| run | module, cfg | instance | shows |
|---|---|---|---|
| `cycle` | `RunLoop`, `MCRunLoop.cfg` | 4 URLs, 2 at a time, download-retries 1, auto-reload, fair | `FreedOnce`, `ReloadEnds`, `ReloadsRecur`, `NewsAnnounced`, `BatchesProgress`, `ImplementsReloadCycle` |
| `retry` | `HttpFetch`, `MCHttpFetchRetry.cfg` | 3 URLs, 2 at a time, retries 3 | `Inv`, `RetriesBounded`, `CycleComplete` |
| `faults` | `MCCache`, `MCCache.cfg` | 2 feeds, an article with and one without unique id; the program may end and sqlite may fail | `NoDuplicates`, `NoOrphans`, `ImportKeepsMarks`, `OnlyStaleDeleted`, `GracePeriod`, `StaleGone`, `NewsReported`, `ImplementsArticleStore` |
| `keys` | `MCMainWindow`, `MCMainWindow.cfg` | 3 feeds, up to 5 articles, 2 rows, show-read-feeds yes | `InBounds`, `RowsCounted`, `RowsFresh`, `ExitReturns` |
| `snapshot` | `MCMainWindow`, `MCMainWindowImport.cfg` | 2 feeds, 2 row ids, 2 dates, 1 or 2 rows, any cache at first, imports, resizes, read feeds not listed, read articles listed | `TypeOK`, `RowsKeepFeed`, `PagesTile`, `FirstPageKept` |
| `pager` | `MCPagerPipe`, `MCPagerPipe.cfg` | writes of 1, 4 and 1 units, pipe of 2, one failing fork, fair | `NothingLeft`, `NoDeadlock`, `MarkedFirst`, `InOrder`, `WholeUnlessCut`, `Returns` |
| `bindings` | `MCHashTable`, `MCHashTable.cfg` | 4 names that collide and wrap in 4 slots | `TypeOK`, `NoNameTwice`, `HelpListsKeys`, `OneBindingChanges` |
| `config` | `ConfReader`, `MCConfReader.cfg` | all files of up to 7 bytes, a buffer that grows by 3 | `TypeOK`, `LinesRead`, `BytesKept`, `WordsSplit`, `UrlsRead` |
| `redo`, `early`, `hidden`, `help` | see `PROJECT.json` | one property each, violated | section 5 |

Why these bounds are enough for what is asked. Two full batches of two let a URL of
the first one be settled while others wait and be eligible again in a later one; a key
can be pressed before, within and at the end of each, and two ticks put a key between
the start of the waiting and its end. Three URLs with two slots make a partial last
batch, and three retries let a URL fail, succeed or be given up in different batches.
CyclesUntilDelete 2 is the code's value; `missed` runs to it, one more reading of the
clock makes an article old, and two row ids let a deleted id be used again. Two feeds
show that an import leaves the other alone. Two rows put three feeds on two pages, the
second with a blank row when one is absent, and two of the feeds' articles on a page;
`snapshot` adds shrinking and growing, and there the lists shrink too: a mark or a
deletion empties the second page, a key finds it empty, a resize leaves it. Two row
ids and two feeds are enough for an article that is displayed to be deleted and its
id to be given to one of the other feed, alone in its list or beside another; read
articles have to be listed for it, as an import deletes no other ones. Four units in a pipe of two
block the parent with a part written, at each place of the pager's reading. Four names
in four slots fill the table, with chains that overlap at its end. Seven bytes and
steps of three let the buffer grow twice and put each kind of byte on each side of
each of its ends. `faults` uses symmetry of the feeds; its properties are invariants
and box formulas without liveness, so that is sound.

The type invariants of `HttpFetch`, `RunLoop`, `Cache` and `PagerPipe` are proved
(section 4), and no run checks them.

Deadlock is checked where the system does not stop.  The loop ends with the exit
key, the program with SIGPIPE, and files are read once.

## 4. Proofs

### What is proved

| theorem | says |
|---|---|
| **`HttpFetchProofs`** | |
| `TypeCorrect`, `Invariance` | Spec => []TypeOK, Spec => []Inv |
| `BuffersFreedOnce` | Spec => []FreedOnce |
| `FailuresBounded` | Spec => []RetriesBounded |
| `CyclesComplete` | Spec => CycleComplete, an action property |
| `NothingRedone` | DlRetries <= 1 => (Spec => []OnlyFailuresRetried) |
| `BatchesAdvance` | Spec => BatchesProgress, an action property (of DlRetries <= 1) |
| **`RunLoopProofs`** | |
| `LoopImplementsFetch` | LoopSpec => Spec |
| `LoopTypeCorrect`, `LoopFreesOnce`, `LoopCyclesComplete`, `LoopBatchesAdvance` | LoopSpec => []LoopTypeOK, []FreedOnce, CycleComplete, BatchesProgress |
| `LoopImplementsSteps` | DlRetries = 1 /\ UsableConfig => (LoopSpec => Cycle!Steps) |
| `LoopImplementsCycle` | DlRetries = 1 /\ UsableConfig => (LoopSpec /\ ReloadEnds => ImplementsReloadCycle) |
| `EndedNewsAnnounced` | LoopSpec /\ ReloadEnds => NewsAnnounced |
| **`CacheProofs`** | |
| `TypeCorrect`, `RowsUnique`, `RowsOwned` | Spec => []TypeOK, []NoDuplicates, []NoOrphans |
| `MarksSurviveImport`, `StaleOnly`, `GraceKept`, `AllStaleGo`, `NewsExact` | Spec => ImportKeepsMarks, OnlyStaleDeleted, GracePeriod, StaleGone, NewsReported: action properties |
| `CacheImplementsStore` | Spec => ImplementsArticleStore |
| **`PagerPipeProofs`** | |
| `TypeCorrect`, `NothingStays`, `MarkComesFirst`, `PageInOrder`, `PageWhole` | Spec => []TypeOK, []NothingLeft, []MarkedFirst, []InOrder, []WholeUnlessCut |
| `NobodyStuck` | Spec => []NoDeadlock |
| **`HashTableProofs`** | |
| `TypeCorrect`, `NamesUnique`, `HelpRight` | Spec => []TypeOK, []NoNameTwice, []HelpListsKeys |
| `OneBinding` | Spec => OneBindingChanges, an action property |
| **`MainWindowProofs`** | |
| `TypeCorrect` | Spec => []TypeOK |
| `RowsBelong` | Spec => RowsKeepFeed, an action property |
| `PagesAreList` | Spec => []PagesTile |
| `StaysInBounds` | OneHeight => (Spec => []InBounds) |
| `FirstPageStays` | Spec => FirstPageKept, an action property |
| `FirstPageNeverStale` | ~MayImport => (Spec => [](mw.page = 0 => RowsFresh)) |
| `LastRowRight`, `NoRowStale` | Settled => (Spec => []RowsCounted), []RowsFresh |
| `ExitFindsFeed` | Settled => (Spec => ExitReturns), an action property |
| **`ConfReaderProofs`** | |
| `TypeCorrect`, `AllLinesRead`, `NoByteLost`, `LinesSplit`, `UrlsFound` | Spec => []TypeOK, []LinesRead, []BytesKept, []WordsSplit, []UrlsRead |

### From which assumptions

Each module names what it assumes of its constants, and TLC evaluates it on each
run: the types of the code's fields, and sizes that are finite because the
program's tables and lists are.  `ConfigAssumption` (HttpFetch) has any number of
URLs, any reload-threads and a download-retries that is not negative;
`CacheAssumption` any sets of feeds and articles, any CYCLES_UNTIL_DELETE and any
retention; `PipeAssumption` any page of non-empty writes and any capacity;
`TableAssumption` any hash function, with names that are finite in number and fit the
table; `WindowAssumption` finite sets of feeds and row ids, any dates, any
caches to begin with and any heights of at least a row; `ReaderAssumption` any CONF_BUF_INC above 0.  The models' bounds
(`MaxEntryID`, `MaxNow`, `MaxForks`, `MaxUnset`, `MaxFile`) are any natural number in
the theorems.

Some theorems have a hypothesis of their own, because without it the code breaks the
property, or because it is liveness:

* `NothingRedone` is for DlRetries <= 1; the run `redo` shows that 2 breaks it.
* `LoopImplementsSteps` and `LoopImplementsCycle` are for DlRetries = 1, the
  default, since `ReloadCycle` has a URL loaded at most once, and for a `UsableConfig`
  (a URL and a slot), without which the buffers are freed twice.
  `LoopImplementsCycle` takes from TLC that reloads end.
* `EndedNewsAnnounced` takes the same from TLC, and needs nothing else: no
  fairness, no particular settings.
* `OneHeight` is a terminal that keeps its size.  With two heights the cursor can end
  up outside (section 5).  Imports and hidden feeds do not matter to it.
* `FirstPageNeverStale` is about the time between reloads, since an import between
  drawing and use makes rows stale by design; `FirstPageStays` says that nothing
  but an import does.  Both are for the first page only: on a later page rows
  outlive their feeds when read ones are hidden (`hidden`).
* `Settled` is ShowReadFeeds, no import and one height, what the run `keys`
  instantiates: then the pages of feeds do not change, and what
  `FirstPageNeverStale` says of one page holds of all, with the last row and the way
  back besides.

`WindowInv`, and with it `TypeCorrect` and `RowsBelong`, `FirstPageStays` and
`PagesAreList` hold without any of these conditions.

### Along which argument

Each of these theorems rests on an inductive invariant, kept by every action, one
step of the proof for each.

*Scheduler.*  `FreedOnce` and `RetriesBounded` are not inductive.  That the buffers
are freed once depends on a running cycle having a batch, and so on loading
finding something after a reset; that downloads are bounded depends on each
count being at least the failures so far.  `Inv` adds both: a cycle runs exactly
while some URL has a handle, no more handles than slots, a count of 0 only for a URL
in the batch or imported (`Accounted`), and for a URL not imported, no more
downloads than its count allows (`Counted`).  `LoadSound`, `PerformSound` and
`SettleSound` say what the three things a call does keep of a batch,
`BatchRunsInv` and `BatchEndsInv` compose them.  Loading uses a fact about
cardinalities (`EmptyBatch`): with a positive number of slots nothing is loaded
only if nothing is eligible.  `Retired` says that what was imported has no transfer
and no count that loading would take; with one download per URL it is kept.
`BatchEndsProgress`: with one download per URL, loading takes only URLs that were not
tried, a cycle goes on only if it took some, and settling makes no URL an untried one.

*Loop.*  `LoopStep`: each step is one call of `handle_urls` or leaves the
scheduler alone, so the theorems about the scheduler carry over.
`NewsStep`: the news of a cycle stay with it until the call that ends it, which the
loop or the reload-all key makes and either of them announces; together with
`NoneYet`, that no cycle runs before the loop makes its first call, this is the safety
part of `NewsAnnounced`.  `LoopStepIsCycleStep`: under the mapping to `ReloadCycle`
each step is a step of it or none; `Far` is how far each URL is, and only loading and
settling move it on.

*Cache.*  `ImportState` is what each place of an import may rely on, in particular
that `feedid` has a row.  `NoDuplicates` needs no more, because the sub-selects
of the upserts find the row there is.  `Aging` ties `Current` of each row to the number
of imports in a row that missed its article (`Missing`, which counts the one under
way from the statement that decrements): until that number is CYCLES_UNTIL_DELETE,
`Current` is not below 1 less it, unless an import was cut short, and not above, unless
anything was disturbed.  The one gives `GracePeriod`, the other `StaleGone`.
`NewsCounted` follows both counts of unread articles through the import: the first was
taken before anything was listed, and the feed has what it had and what was
listed.  The refinement rests on `CacheInv`, the conjunction of `TypeOK`,
`ImportState`, `NoDuplicates` and `NoOrphans`: the status of an article is that of its
one row (`StatusIsOfRow`), and an import is under way in the abstract store exactly
while it is in the tables.

*Pager.*  `Ends` says for each place of parent and child which ends of the pipe it
has open, from which `NothingLeft` follows.  `Marked`: nothing is in the pipe
before the mark is made.  `Sorted`: what the pager has got, then what is in the
pipe, is in order and before the next unit to be written; `Delivered`: every unit
before that one is in one of them while the pager lives, unless a write was cut;
`Finishing`: the pager sees the end only after the parent's last write or the
program's end.

`NobodyStuck` needs only `Ends`: a full pipe is something for a pager to read, and
when the parent waits for the child it has closed its end, as the child has closed
its copy before it became the pager.

*Tables.*  `TableInv` has, besides types and uniqueness, `Path`: on the way from
the hash of a name to its slot no slot is empty, that is never used, though any may
be deleted.  That each name is on the way from its hash is arithmetic
modulo the size (`WrapAround`), that a slot is found for a new name is the
pigeonhole principle: a table in which the probes of an absent name find no free
slot holds as many names as slots, without that one.

*Window.* `WindowInv`: the cache is one, and the window has as many rows as
`body_len`, under any imports and resizes. It says nothing of the rows' feeds, since no
invariant can: `Keeps` says of each key, of a resize and of the end of a reload that
rows which are of their feed (`OfFeed`) stay so, for any cache, as every
list is generated from the feed it is of; an import keeps the feed of each article that
remains (`ImportFacts`), so it breaks that only with an id that was free. `WithinInv` adds that cursor,
saved cursor and counted row are rows; a cursor saved in a larger window need not be a
row of a smaller one, and that is where two heights break it. `FirstInv` adds that the
first page has lines and shows them (`Fresh`), which depends on a list of articles
never being left without any (`Stocked`): every way out of a list that has run empty
goes to the feeds. Only an import breaks it. `SteadyInv`, when `Settled`: the page has
lines and the rows are these, the last row is counted (`CountOf`), and the saved page
has the feed that was entered at the saved cursor (`Backed`), which the page numbers
of `prev_page`, `next_page` and the context keep.

*Pages.*  `PagesTile` needs no invariant: it holds of every cache.  A page is the
part of the list from the end of the page before on (`PageIsPart`), which is where
the row Unread Articles on page 0 and the offset of the later ones have to fit.
`FlattenSeq` is a fold; `FlattenIs` says of a sequence of sequences, each of
which adds the next page to the one before, that its last is the flattening, by
taking the least place at which it would not be.

*Reader.*  `ReaderInv`: the cells of the buffer hold the bytes of the file that end
at the place read to (`Cells`), and the lines returned are those of the file that
begin before that (`Done`).  A line is known by the rank of its first byte among the
first bytes of lines, so one line more is one rank more, and no induction over the
file is needed.  Words are treated the same way on a line (`Place`): after n words
the line is left from a place before which n words begin, not counting the
empty one in front of a leading blank.  Where a sequence of words has to
be followed from its beginning, the proof takes the least place at which it
would be wrong (`MinOf` of `Extrema`) and shows that the one before would be too.

### Only model-checked

* Liveness (`ReloadEnds`, `ReloadsRecur`, `Returns`), which TLAPS does not reach;
  of `NewsAnnounced` and `ImplementsReloadCycle`, that reloads end.
* The properties that runs show violated: `ReloadsAsked`, `ReadFeedsHidden`,
  `HelpComplete`, and `OnlyFailuresRetried` from download-retries 2 on.

## 5. Where the code and its documents differ

Each of these has a run whose counterexample shows it.

* `redo` - "Number of times to retry failed downloads" (config.sample:35).  A
  retry that succeeds leaves the count of errors as it is, and 0 < count <
  download-retries is what loading takes for a failed download.  From 2 on, a URL
  that timed out once is downloaded with every batch, and the cycle does not end.
* `early` - "Periodically reload feeds automatically", yes or no
  (config.sample:27).  When reload-all ends a cycle while a socket was ready beside
  the key, the loop still has the old result of `select`, calls `handle_urls` and
  thereby starts the next cycle at once.  With auto-reload on, the reload it just
  ended does not count for the time until the next either, as `refresh_all` does not
  set `last_time`.
* `hidden` - show-read-feeds no (config.sample:91).  On a later page, marking
  the last feed with unread articles read leaves its row on the screen.
* `help` - without a downloader, the operation download loses its handler
  (config.c:447), and the help takes that for the end of the list of operations
  (keys.c:201): high-item, mid-item, low-item, reload-all, the marks, redraw-screen
  and help itself are not listed.  The keys work; so does D, which is then handed
  a downloader that is not there and whose child dies at once.

Others were met and are stated as conditions of the properties, so that leaving
the condition out shows them:

* download-retries N makes N downloads, that is N-1 retries, and errors
  other than a timeout get none (`RetriesBounded`); the sample's 1 means no retry.
* sql/cache.h:14 counts "repeated refresh cycles with the entry missing".  An
  import that is cut short has counted all articles of its feed as missing, so that
  what it did not reach is deleted earlier (`"exit"` in `GracePeriod`).
* An entry without a unique id is new, and news, at each refresh (`known \cap
  Guided` in `NewsReported`; "Beep when new unread articles are fetched",
  config.sample:48).
* config.sample:57 has articles deleted that are "Marked as unread"; the statement
  deletes read ones only, as `OnlyStaleDeleted` says.
* A resize while a write waits for the pager loses the rest of that field (`~cut` in
  `WholeUnlessCut`; "Article content will be piped to this command's stdin",
  config.sample:19).
* A pager left before it has taken the whole page from the pipe, or that cannot be
  started, ends the program by SIGPIPE (`"killed"` in `Returns`).  So it does when
  there is no configuration file, since the default pager is set after the
  jump that skips the reading (config.c:419).
* A failed fork leaves a pipe open for good (`leaked`), and the article marked read.
* The last line of a file without a newline is returned with a newline and the
  memory behind it; a file whose last newlines follow a line break in the buffer has
  a line "\n" more (`EndsWell` in `LinesRead`).  A line that begins with a blank has an
  empty first word, in the URL file an empty URL (`WordsSplit`, `UrlsRead`).
* Arguments of pager and downloader that are separated by more than one blank
  begin with the blanks that are too many (`WordsSplit`).
* The program ended while it creates its tables never creates the rest:
  imports then do nothing, or end the program with exit(2) (`Exists`).
* A reload whose first call also ends it neither beeps nor updates the list if
  it is the one before the loop (`NewsAnnounced` is about cycles that outlive
  the call).
* An empty URL list, or reload-threads 0 or less: the first batch is empty, the
  call cleans up, and goes on in the same call to clean up again: the buffers are
  freed twice.  `FreedOnce` is about `UsableConfig`.
* With show-read-entries yes, a read article that is on the screen may be deleted by
  an import, and its row id given to a new article of another feed (`IdReused` in
  `RowsKeepFeed`).  Until the rows are generated again, keys on that row open or mark
  the other article.  The end of the reload does so, unless the list of the feed has
  become empty: then the rows stay.
* A terminal that shrinks while a list of articles is entered: `select_item`
  saves a cursor of the larger window, `context_exit` restores it in the smaller
  one, beyond `body_w` and the rows.  `InBounds` is checked with one height;
  with two, TLC finds this in five steps.

## 6. Not modelled, and what is left

Not modelled on purpose: ncurses, libcurl, libxml2, libxslt and sqlite (external;
modelled by what the code does with their results), the text of the rows and of the
footer, colours, the option handlers that assign one field, the stylesheets, `main`
(a fixed sequence of calls), `next_unread_item` (bound to no key), tags (never
used), and xmlproc.c:203-412, which the compiler leaves out.

No safety property of a run is without a theorem.  What is left is what the provers
cannot do: liveness under fairness stays with TLC, with `BatchesAdvance` as the
proved part of why a cycle ends and `NobodyStuck` of why the program comes back
from the pager.
