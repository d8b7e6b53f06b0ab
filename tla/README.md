# A formal model of buku

buku is a self-hosted e-book server: it scans library directories into SQLite,
enriches the metadata of the books with a provider, keeps the readers' progress
and serves the books, converted where a device asks for it. This directory holds
TLA+ modules of the parts of it that run concurrently, fail halfway or build on
state they read earlier, TLC configurations that check them on small instances,
and TLAPS proofs of the most important results for every value of the constants.

`PROJECT.json` lists the components, the runs, the source lines behind each
definition, the hazards and the theorems. Paths below are relative to
`src/src/buku/`.

## 1. The system

Everything shares one SQLite database (`db.py`): WAL mode, foreign keys, a busy
timeout, sessions with `autoflush=False` and `expire_on_commit=False`. Web
handlers run in FastAPI's thread pool, jobs in threads of the same process,
and the command line in processes of its own.

| Component | State | Operations | Hard behaviour | What makes it correct |
| --- | --- | --- | --- | --- |
| Job queue (`jobs/queue.py`) | `jobs` rows: status, attempts | enqueue, claim, complete, fail, recover | two claimants; SELECT and UPDATE apart | one owner of a running row; attempts within the limit |
| Worker pools (`jobs/worker.py`, `app.py`) | pools, threads, the server's lifetime | start/recover, pool loop, stop | threads outlive a cancelled task; crash between any two steps; an outcome that cannot be written | exclusive execution; no abandoned row; jobs settle |
| Enrichment drain (`metadata/enrichment.py`, `cli.py enrich`) | a batch read once, written at the end | read, run lookups, commit | a second process over the same rows, unconditional | what it must not break of the above |
| Library scanner (`scanner/scanner.py`) | `books`, `book_files`; one transaction per scan | walk, change and move detection, grouping, missing files | files change under the scan; folders and files out of reach; aborted scans; queries that see only what is flushed | a quiet scan leaves the rows as the disk is; identity survives a move |
| Metadata curation (`metadata/enrichment.py`, `application.py`, `provenance.py`, `services/metadata_review.py`) | a book's fields, their provenance, its search row | enrich, apply missing, apply fields, edit | decisions taken on what was loaded before a slow HTTP call | a user's edit survives; missing-only fills only gaps; index in step |
| Matching (`metadata/google_books.py`, `matching.py`, `metadata_review.py`, their handlers) | `metadata_matches` | query, score, store, accept, apply, reject | threshold of automatic application; overlapping lookups and reviews | only certain matches apply by themselves; a rejection lasts |
| Reading progress (`services/progression.py`) | one record per user and book | PUT from web and OPDS | overlapping requests of several devices; clocks | newest whole record wins; timestamps do not go back |
| Sessions and users (`services/auth.py`, `admin.py`, `api/deps.py`, `opds/auth.py`) | `users`, `sessions` | create, disable, log in and out, check a request | revocation between the statements of a check; login, or a slow verification of a password, beside a deactivation; expiry | nobody gets in with a dead session, or for an inactive user |
| Representation cache (`services/representation.py`, `represent/`) | `representations` rows, artifacts, staging files | generate, get, serve | shared staging name; rename and row apart; crash, sweep, eviction | no partial artifact is served; one row per book |
| X4 optimizer (`represent/optimizer.py`) | none (one file to another) | drop, convert, rewrite, verify the spine | ids and members named twice | every locator still points at what it did |
| Cache maintenance (`services/cache.py`) | the files under the cache directory | validate, sweep, clear, evict | two jobs over lists made at different moments; the count of sidecars | the cache ends within its limit, the oldest go first |
| Reader (`services/reader.py`, `web/views.py`, `reader.js`) | parsed packages in memory; the page's chapter | open, chapter, resource; next, jump, follow, save | an unlocked cache; a file replaced between stat, parse and open; documents the spine names twice | a chapter is of the file on disk; links lead where they say; the position saved is the one shown |
| OPDS feeds and catalog (`opds/service.py`, `services/catalog.py`, `services/search.py`) | none of their own | count, slice, link | pages are requests; the catalog changes between them | a crawl misses nothing and lists nothing twice |
| Database and migrations (`db.py`, and `migrations/` of the repository) | the schema, its stamp | upgrade, downgrade | DDL commits by itself; killed or run twice at a time | a stamp is never ahead of the schema |
| Format handlers, configuration, CLI, the other pages | none of their own | parse a file, render a read | | pure functions |

How they interact: a scan enqueues a `metadata_lookup` job for every new file
(`scanner.py:434`); it is the only job type anything in this code enqueues. The
pools run the job, which enriches the book and re-indexes it; `buku enrich` does
the same work from another process. A download of the X4 representation
generates it on demand from the file and the hash the last scan recorded, so it
depends on the scanner having run since the file changed. The cover jobs and
the maintenance job share a pool with generations of representations and evict
from the directory these write to. The reader and the feeds read what scans and
reviews change meanwhile; the reader's page stores its position through the
progress service. Every request of a page, the API or a feed passes the check
of `AuthSessions` first.

### What SQLite and the ORM contribute

These facts decide the grain of every model:

- A transaction begins at the first write. A SELECT takes no lock and what it
  read may be old by the time of the UPDATE: they are two steps. An UPDATE with
  its COMMIT is one, since no other writer comes between.
- A flush takes the write lock and keeps it until the commit or rollback.
- A write that meets the lock for longer than the busy timeout raises. The
  models allow this at every write.
- The ORM's UPDATE names only columns whose value differs from the one loaded:
  a session that sets a column to the value it read writes nothing.
- Closing a session without a commit rolls back.

## 2. Modules

| Module | Models | Composed of |
| --- | --- | --- |
| `JobQueue` | the jobs table and the row operations of `jobs/queue.py` | |
| `JobLifecycle` | abstract: what the queue promises of each job | EXTENDS `JobQueue` |
| `JobWorker` | the pools' threads and the server process over the table | EXTENDS `JobQueue`, implements `JobLifecycle` |
| `EnrichDrain` | `JobWorker` and the process of `buku enrich` together | EXTENDS `JobWorker` |
| `ProgressRegister` | abstract: one record per reader and book, replaced by newer ones | |
| `Progression` | the service behind the two PUT handlers | implements `ProgressRegister` |
| `RepresentationCache` | generation and serving of one book's artifacts, with sweep and eviction | |
| `MetadataCuration` | everything that writes a book's metadata after the scan | |
| `MatchReview` | search, score and status of the candidates for a book's metadata | |
| `LibraryScan` | a scan of a library whose owner goes on changing it | |
| `CacheEviction` | validation, clearing and eviction of the artifact cache | |
| `SchemaMigrations` | the three revisions under Alembic | |
| `X4Rendering` | what the optimizer makes of a package | |
| `AuthSessions` | accounts, sessions, and the check of each request | |
| `ReaderCache` | the cache of parsed packages under request threads | |
| `ReadingSession` | reading order, links and the script of the reader's page | |
| `CatalogFeed` | paged feeds and a client that follows their links | |
| `Selections` | a list filtered (`Kept`) or added up (`Total`) | used by `CacheEviction`, `X4Rendering`, `ReadingSession` |
| `MetadataProofs`, `RepresentationProofs`, `ScanProofs` | theorems | EXTEND the component |
| `JobProofs` | theorems about `JobWorker` and `EnrichDrain` | EXTENDS `EnrichDrain` |
| `SelectionProofs` | lemmas about `Selections` | EXTENDS it |
| `EvictionProofs` | theorems about `CacheEviction` | EXTENDS it and `SelectionProofs` |
| `ServingProofs` | theorems about the five of `MCServing` and of the union | EXTENDS it and `SelectionProofs` |
| `UpkeepProofs` | theorems about `MatchReview`, `SchemaMigrations`, `X4Rendering` and of the union | EXTENDS `MCUpkeep`, `ScanProofs`, `EvictionProofs` |
| `MCServing` | `AuthSessions`, `ReaderCache`, `ReadingSession`, `CatalogFeed` and `Progression` side by side | EXTENDS them |
| `MCUpkeep` | `LibraryScan`, `MatchReview`, `CacheEviction`, `SchemaMigrations` and `X4Rendering` side by side | EXTENDS them |
| `MCBook` | `MetadataCuration` and `RepresentationCache` side by side | EXTENDS them |
| `MCJobWorker`, `MCEnrichDrain`, `MCProgression` | the constants of the instances TLC checks | EXTEND the component |

`MCServing` and `MCUpkeep` put five modules into one run each, `MCBook` two. They
share no variable and no step; `part` is chosen at the start, only that part moves,
and the others stay as they began. A behaviour of the union is therefore a
behaviour of one part, and what holds of it holds of that part by itself: the
run checks each as a run of its own would, and claims nothing about their
interaction, of which the code has none but through the tables named above.
(`ServingParts` and `UpkeepParts` prove the first half: the union's
specification implies that of each part.)

A definition commented "mutant of X" is a faulty variant of X, the way a
plausible bug would have it. No behaviour uses them; they serve to show
that a property would notice the fault.

### Correspondence with the code

**JobQueue, JobWorker.** A job is its rank in the queue's order
(`created_at, id`). A thread's `pc` follows `_drain_once`: `idle` (before the
SELECT of `claim_job`), `claim` (between that and the conditional UPDATE),
`run` (the handler), `settle`/`fail` (before the outcome's session reads the
row), `writeSettled`/`writeFailed` (having read it). `seen` is that read row:
`complete_job` and `fail_job` write relative to it (`SaveStatus`). A claim whose
write raises returns to the loop (`ClaimError`), an outcome whose write raises
leaves the row running (`LoseOutcome`, ghost set `orphans`). `Start` reads the
running rows and `Recover` writes them back, the two steps of
`recover_stale_running_jobs`; `Stop` lets each thread finish its `_drain_once`,
as cancelling the asyncio task of a thread does; `Crash` loses the threads. Only
one server process at a time is modelled. Payloads, results, progress, error
text, timestamps and the poll interval are left out. Handlers return or raise.

**EnrichDrain.** The drain's writes and its early flushes are uncommitted until
the end and hold the write lock meanwhile, so it is a read (`DrainRead`) and one
write of the whole batch (`DrainCommit`), with nothing or an abort between.
Which of the failed lookups had been flushed as `running` before going back to
`queued` decides whether the ORM writes the status at all: `flushed` ranges over
both. `Others` are the jobs of the types the drain does not select;
`OtherLifecycle` is `JobLifecycle` of these, with the tables restricted to them.

**Progression.** A request reads (`AskFirst`, `AskNewer`, or it is refused at
once by `AskConflict`), then inserts or updates. `Merge` is the ORM's UPDATE by
changed columns over what is stored. The locator's columns are one `pos`, the
device's two one `dev`. `Serial` are the records whose requests are known not to
overlap (one client that waits for its answers).

**RepresentationCache.** One book, one profile. `tmp` and `target` are files by
source hash, since both names are functions of it; a file records what it was
rendered from and who has it open. `thread[t].out` follows the open file
through a rename. `disk` and `known` separate the source file from the hash the
last scan recorded. `Overlap` says whether two generations may run at a time.

**MetadataCuration.** A session loads the book, decides (`Plan`, reading the
provenance) and commits. Enrichment in addition stores its candidates between
(`StoreCandidates`), a flush that takes the write lock: hence it reads the
provenance under the lock and the others do not. Each session carries whether
another was open at any moment since it began (`alone`): what holds only
without overlap is claimed of such sessions, in behaviours where others do
overlap before and after. Fields are the indexed single-column ones; series,
authors and identifiers (several rows each) are left out.

**MatchReview.** `Search` takes what the book says of itself (any of `Facts`,
since the book may be edited while the provider answers) and one of the
provider's possible answers, scores it (`ScoreOf`, in hundredths) and keeps the
best if it reaches the threshold. `LookUp` is the SELECT of one candidate's
row, `StoreMatches` the flush and everything up to the commit, which the write
lock makes one step; `raced` records that another lookup stored rows since this
one began. A review loads one row (`LoadMatch`) and commits its status later
(`Apply`, `Reject`). Text is compared for equality and for resemblance (`Resembling`);
normalisation and the HTTP client are left out.

**LibraryScan.** One library, one scan at a time. Folders are listed one by one
(`Walk`), and each entry found is then looked at three times: `Stat`, then its
hash (`Update`, `Move`, `Hash`), then its metadata (`Add`). `work` are the rows
as the session has them, `flushed` as its own queries see them, `files` as
committed. The move table holds rows by the hash they were loaded with
(`MovedFrom` reads `files`), as `files_by_hash` does. `Under` is the string
prefix the grouping query compares. What `_find_or_create_book` creates besides
the book (series, authors, identifiers, provenance), covers and the enqueued job
are left out.

Any look at the disk may fail although what it looks for is there. `os.walk` has
no `onerror`, so a folder that cannot be listed is passed over (`PassOver`; the
folders below it, which the code then never reaches, by steps of their own) and
its rows are marked missing. A `stat` that fails (`StatFails`), a hash or metadata
that cannot be read (`Unread`) leave the row as it is, or a new file without
one. `Path.exists` says no to a file it cannot look at, whose row may then move
to a copy (`Move`). `scan.unread` are the paths this scan could not look at.

The paths seen are resolved, so that an entry may be a symbolic link (`Links`,
a constant of folder and target): it puts its target among the paths seen also
if nothing is there, and then only its `stat` fails. An entry is therefore a
folder and a path, and one file may be taken up twice. Links from outside the
listed formats, links to folders (`followlinks=False`) and links that lead out of
the library are left out, and none comes or goes.

**CacheEviction.** `stored` are the artifacts in the order of their mtimes,
`sidecar` what lies beside each. The maintenance job validates and then
evicts, the cover job only evicts; both list the cache (`List`) and then delete
from that list, first a sidecar, then its artifact, each of which may fail.
`freed` counts as `evict` does: the bytes of a sidecar once by themselves and
once with the size of their artifact. `doubled`, `stuck`, `quiet` and `alone`
are of no use to the job: they say what the property may ask of it. Nothing in
the repository calls `write_checksum` yet; `StoreArtifact` allows it. The cache
without an artifact is the list filtered (`Kept`), its bytes are a `Total`.

**SchemaMigrations.** The tables and indexes of each revision in the order of
their statements, upward and downward, read off the three files. A statement
that changes the schema commits by itself; the rows of a revision and the stamp
are one transaction. `CreateNext` fails on what exists, `DropNext` on what does
not, but for `books_fts`, which is dropped `IF EXISTS`. `KillMigrator` may come
between any two.

**X4Rendering.** An edition is its members, the items of its manifest and its
spine. The maps that the code builds by id are `ItemOf` (the last item with the
id). What a member holds is "source", "converted", "stripped" or nothing. The
steps are those of `optimize`: parse, write, verify the spine.

**AuthSessions.** Each caller is a request or command with a database session
of its own; a step is one statement, or a statement with its commit.
`validate_session` is `Look` (the row), `Judge` (the time, the user, whom only
this access loads) and `Admit` (the UPDATE of `last_active_at`) or `Discard`.
`authenticate_user` and `create_session` are two steps of one login, and a
deactivation may come between. A request with Basic credentials is two steps as
well: `BasicCheck` reads the account, which must be active, and `BasicAdmit`
lets the request in once the password has been verified, as the account that
was read. Tokens are random: none is drawn twice.
`change_password`, which touches no session, and the role check are left out.

**ReaderCache.** A version number stands for what identifies a file (path,
mtime, size); `Stat`, `Parse` and `Read` are the three looks of a request at
the disk. The OrderedDict's operations are atomic, a sequence of them is not:
`Get`, `Touch`, `Store`, `Trim`, `Pop`. A KeyError that `Touch` or `Pop` meets
ends the request (`Reply`). Size limits, the archive checks and the rewriting
of markup are left out.

**ReadingSession.** `Order` is the reading order the service makes of the
spine; `FirstPlace` is what `reader_page`, the table of contents and the
stored position use for a document the spine names twice, `LastPlace` what the
rewritten links use. `current` is the script's `chapterIndex`, `shown` the
chapter in the frame: the script sets both, a link in the text only the second.

**CatalogFeed.** Each acquisition feed is the set it pages through (`Paged`),
its order (`Before`), and for the X4 search a filter after paging (`Entries`).
A page is a count and a slice, two looks at the catalog; the client follows
"next" until there is none. `moves` and `grown` record what changed since the
crawl began.

## 3. Runs

| Run | Instance | Checks |
| --- | --- | --- |
| `mc_job_worker` | 3 jobs in 2 pools, 3 slots, limits 2 and 1, 2 starts, fairness | `TypeOK`, `ExclusiveExecution`, `RunningMeansOwned`, `AttemptsBounded`, `SettledIsFinal`, `ImplementsLifecycle`, `EveryJobSettles` |
| `enrich_drain` | 2 slots, a lookup and another job, 2 drains, 2 starts, fairness | `DrainTypeOK`, `RunningHasOwner`, `OtherJobsExclusive`, `OthersImplementLifecycle`, `EveryJobSettles` |
| `enrich_drain_claim` | 3 jobs, 1 drain | `ExclusiveExecution`: violated |
| `book`, part "representation" | 2 contents, one generation at a time, 2 replacements, 2 crashes | `OneRow`, `NoStagingLeft`, `ServedIsWhole` |
| part "curation" | 2 fields, 2 values, all four operations, two sessions at a time | `AutomationYields`, `IndexInSync`, `MissingOnlyFillsEmpty`, `EditTakesEffect` |
| `representation_partial` | part "representation", two generations at a time | `ServedIsWhole`: violated |
| `curation_review` | part "curation", a review and edits, two at a time | `UserEditsSurvive`: violated |
| `progression_monotone` | one overlapping record | `TimestampsMonotone`: violated |
| `serving`, part "auth" | 2 names, 2 accounts, 2 callers, 2 tokens, sessions of a day, 2 days | `AdmittedIsLive`, `RevokedStaysDead` |
| part "cache" | 2 books, 2 requests, room for 1 entry, 3 versions, the last unreadable | `ServedConsistent` |
| part "session" | every package of 2 items (chapters or not), a spine of up to 3, tables of contents of up to 2 | `LinksLand` |
| part "feed" | 3 books, 2 titles, 7 feeds, pages of 1 and 2, 1 change during a crawl | `QuietCrawlExact`, `GrowingCrawlComplete` |
| part "progress" | one serial and one overlapping record, 2 requests, 3 timestamps | `CreatedOnce`, `FreshWriteIsWhole`, `ImplementsRegister` |
| `disabled_basic` | part "auth" | `DisabledRejected`: violated |
| `reader_links` | part "session" | `SavedIsShown`: violated |
| `feed_limit` | part "feed" | `LimitedCrawlExact`: violated |
| `upkeep`, part "scan" | 3 paths in 2 folders, a link from one to the other, 3 versions of which 2 look alike, 2 changes or failing looks, any scans | `OnePerPath`, `QuietScanSyncs`, `MovedKeepsRow` |
| part "match" | 2 volumes of one title, 2 lookups, 1 reviewer, 2 rows, books with an ISBN or with a title and maybe authors | `RejectedNotPending`, `AutoAppliedIsCertain` |
| part "cache" | 2 artifacts of 0 or 2 bytes, sidecars of 1, a limit of 2, 2 jobs, 2 stores | `EvictionFits` |
| part "migrations" | the real 3 revisions, 2 processes, 2 books | `StampedIsWhole` |
| part "x4" | every package of up to 2 items of 5 types over 2 ids and 2 members, each there or not, 3 spines | `LocatorsSurvive` |

(`TypeOK` of `serving` and of `upkeep` is the conjunction of the parts' type
invariants; `book` checks `CurationTypeOK` and `RepresentationTypeOK`.)

What they show:

- **Jobs.** Within one server no interleaving, crash, restart or lost write has
  two threads execute a job, leaves a running row without an owner in a live
  server (but those whose outcome could not be written, until the next start),
  or touches a settled job. The limit on attempts holds up to one extra attempt
  per restart, because recovery does not look at the count. The pools implement
  `JobLifecycle`, the identity being the refinement mapping.
- **The drain.** `buku enrich` beside a running server abandons no row. Jobs of
  other types keep the whole of what the queue promises: what `status` and
  `attempts` say of them implements `JobLifecycle`, the restriction to them
  being the refinement mapping. But a row a worker has claimed after the drain read
  it can be put back into the queue, and a second worker runs it beside the
  first. `queue.py:3` says rows cannot be stolen, which holds only among workers.
- **Progress.** A record whose requests do not overlap is a register with the
  newer-or-equal rule. With overlap a record is still created once and a write
  over the record it read is whole and not older; but two updates that read the
  same old record can commit in the wrong order and set the timestamp back,
  against `progression.py:137`.
- **Representation.** With one generation at a time readers are never given an
  unfinished artifact, whatever crashes, is swept or evicted, no staging file is
  left but by a crash, and rows do not accumulate. Two generations from one
  source share the staging file, and one can rename and serve what the other is
  writing, against `representation.py:97`.
- **Curation.** What a user entered survives every enrichment, overlapping or
  not, since the enrichment reads the provenance under the write lock. It does
  not survive a review ("apply fields") that read the provenance before the
  edit committed, against `metadata_review.py:8`. A session that nothing
  overlaps leaves the index in step, fills only gaps and, if it is an edit, has
  the effect it asked for, also over what overlapping sessions left behind.
- **Candidates.** What a lookup accepts by itself has the book's ISBN, or its
  title where the book has no ISBN but has authors. That the authors agree is
  not required: such a match scores 0.70, the threshold itself, and the
  comparison is `>=`. A rejected candidate does not come back as pending, but
  for two overlapping lookups that each store a row of it.
- **Scanner.** A scan during which the owner changes nothing ends with the rows
  as the disk is, whatever earlier scans were disturbed or aborted and whatever
  looks at the disk failed, with the exceptions stated in the property: a path
  this scan could not look at; the hash of a row whose look (size, and mtime to
  the second) was the file's already, which the scanner takes for unchanged; and
  a row whose path a broken link still leads to, which is not marked missing. It
  takes no moved file for new, and in a library scanned once at a time paths
  stay unique at every moment.
- **Cache.** An eviction that nothing disturbs ends within the limit, but for
  what it could not delete and for the bytes of sidecars, which are counted
  twice; it tries the oldest first and deletes no more than it must when it is
  the only one. Two at a time may delete more.
- **Migrations.** However processes are killed and however two overlap, the
  stamp is never ahead of the tables, indexes and rows of its revision. What a
  killed upgrade leaves makes the next one fail, on the table that exists
  already: that is an error, and no property forbids it. A downgrade drops
  before it changes the stamp; one that is broken off leaves less than the
  stamp says, and the property excepts it.
- **X4.** What passes the verification keeps its reading order and every member
  that a locator can point at, unless a font, a sound or a film names that
  member under another id: then the member goes with it. A member named by one
  item, whose id is its own, is what that item declares.
- **Sessions.** No interleaving of login, check, logout, deactivation and expiry
  lets a request in by a session that is gone at that moment or whose user is
  inactive, and no row of a session that is gone comes back. A login that was
  checked before a deactivation still opens its session afterwards, which the
  first check then discards. But a request with Basic credentials is let in on
  what was read of the account before its password was verified: deactivated in
  between, its user gets in all the same, against `opds/auth.py:5`.
- **Reader.** A chapter is looked up in the structure of the very file on disk,
  unless the file is replaced during the request. Stored positions, contents
  and links lead to the document they name, also if the spine names it twice or
  names items that are no chapters. But the script does not notice that the
  frame followed a link, and saves the chapter the link was in, against
  `reader.js:7`.
- **Feeds.** A crawl of pages of the usual size lists the feed exactly if
  nothing changes, and misses nothing it began with if books are only added
  between its requests (of a search feed, whose order each addition may change,
  that is not claimed). The links do not repeat the limit a client asked for:
  with another limit books are skipped or repeated, against `plan.md:594` of
  the repository.

Met while modelling and not run on their own: overlapping enrichments of one
book fill again what the first has filled, and an enrichment that loaded the
book before an edit indexes the values from before it (drop `alone` from
`MissingOnlyFillsEmpty` and `IndexInSync` to see both); the loser of two first
progress writes is answered with an error although it may be the newer; an
artifact rendered from a file replaced before a scan is cached under the hash of
the content it replaced; two lookups that overlap store two rows of a candidate,
of which a rejection marks one; a spine's document that a font of another id
names too is missing from an artifact that passes the verification (drop
`Contended` from `LocatorsSurvive` to see it), since the spines that are compared
are read off the package documents; the rows of a folder that could not be
listed are marked missing until the next scan; the grouping of books by a string prefix lets a
file join a book of a subfolder or of a sibling folder with a longer name; a
request of the reader fails with a KeyError if another evicts its entry before
it can be made the youngest; an upgrade that was killed halfway has to be repaired by
hand.

### Bounds, and why they are enough

- `MaxStarts` (2): one crash or stop and one recovery. The second start is where
  recovery matters; later ones repeat it. That the bounds on attempts hold for
  any number of starts is proved.
- Two slots of one pool race for a row, a third in another pool shows that pools
  do not mix. Limits 2 and 1 give one job a retry and one none. Three jobs let
  each slot hold one, and the order of the queue matters.
- `MaxDrains` (2): two batches, the second reading what the first wrote.
- Two requests are the smallest overlap of the progress service, three
  timestamps tell older, equal and newer apart with one between.
- `MaxReplaced`, `MaxCrashes` (2): a replaced source that comes back, a crash
  whose leftover a second generation that crashes too meets.
- Two sessions and two fields: one writes one field while the other holds the
  book loaded, with a field left over to show what is not written. Sessions go
  on for ever, so that two that overlapped are followed by one that is alone.
- Two callers and two tokens, of accounts that may be disabled: one request is
  being checked while another session of the same or another account is opened,
  revoked or expires. Sessions last a day of the two there are: one is live,
  one on its last instant, one overdue.
- Room for one entry and two requests for two books: each store evicts what the
  other request is about to use. Three versions: a file may be replaced twice
  during a request, and be unreadable.
- A spine of three over two items has a document twice, next to another, and
  items left out between; two entries are a table of contents in reverse order.
- Three books in pages of one and two: full, half full and empty last pages. One
  change during a crawl is what each of the properties allows or forbids.
- Two volumes, two rows and two lookups: both lookups miss the same row, or find
  it applied, pending or rejected. The facts of the book and the volumes give
  every branch of the score but the one of resemblance and the empty title.
- Two artifacts and two stores: what one job has listed is stored again, or is
  deleted by the other. Sidecars of one byte at a limit of two make the double
  count decide whether the second artifact goes.
- Two processes and the whole of the three revisions; two books show that the
  index is filled from the catalog and not merely created.
- Two items, two ids, two members: every coincidence of ids and of members, with
  every pair of types.
- `MaxMishaps` (2) in `LibraryScan` bounds what the owner changes and the looks
  that fail at what is there, together: a file that vanishes and comes back, a
  swap halfway, a change within a scan and one before, a folder out of reach
  whose files have moved. (That a look fails at what is not there costs
  nothing.) Two files in one folder and one in a sibling give duplicates and
  moves across folders; a link in the sibling to one of the two gives a file
  taken up twice, and a broken link; three versions of two looks give changed,
  unnoticed and unreadable content. At the
  start the sibling has only its link, and a file may come or move there.

`CHECK_DEADLOCK FALSE` stands where a bound leaves the model with nothing to
do: the number of starts in the job runs, and in `serving` and `upkeep` the
parts that come to an end (an optimized edition, a library that no longer
changes, a clock that has run out). The others never stop.

Symmetry is used in `book`, `serving` and `upkeep`, for sets of model values
that no definition tells apart: in `book` fields, values and sessions of the
curation. In
the other two, whose parts have no step in common, an exchange serves several
parts at once: in `serving` callers with readers and requests, and tokens with
books and with locators and devices; in `upkeep` lookups with jobs and processes, and two versions of one title and
look and their hashes with artifacts and books.
None of these runs checks liveness, for which symmetry would be unsound.
`Quiet` of `AuthSessions` names one of the user names, which are therefore not
permuted.

### Fairness

Only the job runs need it. `WF` of `Start`, `Recover` and `Exit`: a supervisor
restarts the server, and the process's own steps go on. `WF` of every thread's
steps: operating system threads run, and a handler ends, since what it waits for
has a timeout or is a finite walk. `SF` of `Claim`: it is disabled again and
again while others claim, and a claim that is possible again and again does not
meet the database lock for ever. The drain's end has `WF`, its start none:
nobody has to run the command. No fairness is asked of `Enqueue`, `Crash`,
`Stop` or any error. `EveryJobSettles` excepts jobs whose outcome could not be
written and whose server is not restarted: the code gives them nobody.

## 4. Proofs

For every value of the constants, under the assumptions named in the modules.
TLC evaluates each in the runs:

- `QueueAssumption`, `WorkerAssumption`, `DrainAssumption`, `ProgressAssumption`,
  `CacheAssumption` (of `RepresentationCache` and of `CacheEviction`),
  `CurationAssumption`, `LibraryAssumption`, `MatchAssumption`, `AuthAssumption`,
  `ReaderAssumption`, `PackageAssumption`, `FeedAssumption`, `EditionAssumption`:
  types, and that the special values differ from the others.
- `RevisionsOrdered` of `SchemaMigrations` has no constant in it: it states
  what can be read off the three lists of statements (nothing is created twice,
  an index comes after its table), which TLC computes and the provers would have
  to unfold.

None of the invariants that the runs check is inductive by itself. What
follows says for each module what had to be added, and why it holds.

**JobProofs**, the pools: `TypeCorrect`, `Exclusive`, `Owned`, `Budget`, `Final`,
`Refinement` (`Spec => ImplementsLifecycle`). None of the invariants is
inductive alone. `IInv` adds: a thread holding a job has its row `running`, and
once it has read the row nobody changes it (`HeldRows`); threads need a live
server; what recovery read still holds when it writes (`StaleRows`), for
everything that touches running rows is dead by then; orphans are running and
held by nobody; and the budget in its inductive form, a row that may be claimed
has an attempt to spend (`AttemptBudget`). `HeldRows` is what makes
`SaveStatus`, a write relative to a read, the transition the lifecycle wants.

**JobProofs**, beside the drain: `DrainTypeCorrect`, `NoRowAbandoned`,
`OthersExclusive`, `OthersRefine` (`DrainSpec => OthersImplementLifecycle`),
`OthersFinal`. A drain may write any status but `running` over any row of a
lookup it has read, so `HeldRows` and `RunningMeansOwned` in their strong form
are lost for lookups. `DInv` keeps them for the jobs of other types
(`OtherHeldRows`, `OtherOrphanRows`), of which the drain's batch holds none
(`Selected`). For all jobs it keeps the half that survives: a row that says
`running` has a thread, is in the list that recovery is about to write back, or
its outcome was lost (`RunningWillEnd`). The drain leaves no row `running`, so
it can take such a row away but not make one.

The refinement needs one thing more. A thread's outcome is a transition of the
lifecycle because the row it read is the row there is (`OtherHeldRows`), and the
commit of a drain is no step of the other jobs at all (`DrainWrites`). But
`Recover` writes back the list that `Start` read, several rows at a time: that
it requeues exactly the other jobs that are running at that moment, which is the
lifecycle's recovery, is `StaleCoversRunning`. `OthersFinal` then follows from
the abstract specification's step alone.

**MetadataProofs**: `TypeCorrect`, `UserEdits` (for enrichments and edits that
overlap in any way), `Yields` (for all kinds of session), and, for sessions that
nothing overlaps among any others, `InSync`, `FillsEmpty`, `EditEffect`. The
first two rest on the lock: an enrichment past its flush holds it (`LockHeld`),
so the provenance it planned with is the provenance it commits on
(`PlanRespectsUser`). The others rest on an invariant about sessions that are
`alone`: no other is open, and the book they loaded is the stored one.

**RepresentationProofs**: `CacheTypeCorrect`, `StagingCleared`, `OneRowKept`,
`WholeServed`. The first two hold however generations overlap: a thread has a
source hash as long as it is not idle (`HasSource`), and a staging file without
a thread between opening and unlinking it is a crash's (`NothingLeft`). The
other two have the hypothesis `~Overlap`, and need it: with overlap the run
`representation_partial` shows the artifact of one thread served while another
writes it. `TurnsInv` says that one thread at most is at work (`OneThread`),
that what it verifies is written to the end, or was swept away (`Staged`), that
it has deleted the superseded rows in the transaction that adds its own
(`Tidy`), and that every artifact under its final name is whole
(`TargetsWhole`). The open file follows the rename, so a crash leaves a partial
file only under the staging name.

**ScanProofs**: `ScanTypeCorrect`, `PathsUnique`, `QuietScansSync`,
`MovesKeepRows`, for any number of files, folders, links and scans, and any
number of looks that fail. `SafeInv` follows what the scan has in hand from one
look at the file to the next (`InHand`): a file whose metadata are being read has
no row of its path in the session, which is what keeps the paths unique although
a move takes a row to another path between. `QuietInv` is about a scan that the
owner has not disturbed so far: in the folders it has listed it has seen what is
there, and nothing but that and where links lead (`SeenAll`); what it holds of
the file in hand is what is on disk (`SawVersion`); a path it has done with, and
did not fail at, has a row if the file can be read, and its rows have the
file's look (`TakenUp`); and each row is as it was loaded (`AsLoaded`) or says of
a file that was seen what it is (`Describes`). The end of the scan, which marks
the rows of what was not seen, turns that into the property. A look that fails
leaves every row as it is and only takes its path out of what is claimed
(`QuietGivenUp`); a move of a row whose file exists is covered because that file
was not seen, so it lies in a folder that was passed over.

**SelectionProofs**: what `Kept` and `Total` do with a list of any length. `Kept`
keeps the elements of the set and their order, by an increasing map of positions
(`KeptPositions`, `KeptElements`); `Total` is a number that grows with its
summands (`TotalMonotone`), changes with one of them by the difference
(`TotalOneDiffers`), and splits over a filter (`TotalKept`). This is induction
over data, which the provers cannot do with the library's theorems, since these
take an operator. It is done here by hand and in first-order terms: both operators are functions
over the prefixes of the list; that such a function exists, and that it is the
one `CHOOSE` finds, is shown for all lengths by taking the set of the lengths for
which it is so, which has 0 and every successor and so is `Nat` (`AllNaturals`,
from `LeastNatural`, from well-foundedness of `<`).

**EvictionProofs**: `CacheTypeCorrect`, `Fits`, for any number of artifacts,
jobs and sizes. The property compares what is stored at the end of an eviction
with sums made in its course from a list made at its beginning, while other jobs
sweep and evict. `CacheInv` says what these are worth. For an eviction that
nothing but other sweeps and evictions has disturbed there are weights, those of
the listing (`Follows`): every artifact still there weighs no more than it did;
their sum and what was freed do not exceed the total but by what was counted
twice; whatever is still there is on the list, or was given up; and the list has
the order of the cache. So when nothing is left to try, or `total - freed` is
within the limit, what remains fits (`EndFits`), and the head of the list is the
oldest that was not tried (`EvictsOldest`). That an eviction which is `alone`
deletes nothing in vain is the opposite inequality, `total <= Held + freed`,
which fails as soon as another one deletes what both have listed.

**UpkeepProofs**, the candidates: `MatchTypeCorrect`, `Certain`,
`StaysRejected`, for any provider, any book and any number of lookups and
reviewers. `Certain` is about the score: the arithmetic of `ScoreOf` leaves an
ISBN, or the title of a book without one, as the only ways to the threshold, and
`Best` is a candidate that none exceeds. That there is a best one is shown with
the least element of a set of numbers (`LeastNatural`). `StaysRejected` needs the
invariant that a lookup with no other beside it has seen every candidate that is
stored (`FreshUnlessRaced`).

**UpkeepProofs**, the migrations: `MigrationTypeCorrect`, `Stamped`, for any
number of processes and any catalog. Unless a downgrade was broken off
(`torn`), the stamp's schema is there or a process is on its way down from it;
who goes up finds all before its next statement in place (`UpBuilt`); who goes
down has left exactly what it has not reached (`DownLeft`) and is alone
(`DownAlone`); and indexes stand on their tables (`Closed`). A process that
meets a table another has created fails there and changes nothing more.

**UpkeepProofs**, the optimizer: `X4TypeCorrect`, `Survive`, for any packages
and whatever pictures can be decoded. `X4Inv` says that an artifact is
`Optimized(source)`, and one that is accepted has the source's reading order,
member by member. The rest is about `Optimized`: a member of the artifact's
order has an item in the artifact, which is one of the source's that was not
dropped (`SpineFrom`, `RewrittenIs`); the member could be dropped only with another item
of it, under another id, and then it is `Contended` (`MembersStay`). If member
and id are nobody else's, the item is the only one of the member
(`DistinctAlone`), and its type is the one it was converted by (`DeclaredIs`).

**ServingProofs**, sessions: `AuthTypeCorrect`, `Admitted`, `Dead`. `Admitted`
is about requests that are let in by a session; what is let in with Basic
credentials has none (`BasicsBare`), and of it nothing of the kind holds. A request
with a session is let in by an UPDATE of the row that an earlier statement has read, after a judgement of a
user that may have been disabled since. The invariant says that of a request
that was vouched for, the user is active as long as the row is there
(`VouchedLive`): what deactivates a user deletes the rows in the same commit,
and a row is only ever written under a token that has not been drawn before.
That second half is also why a row that is gone stays gone (`Dead`).

**ServingProofs**, the reader's cache: `ReaderTypeCorrect`, `Served`. An entry of
the cache may hold the structure of a later version than its key names, since the file is stat'ed
before it is parsed, but never of an earlier one; and the file has moved on at
least to what was parsed of it (`Sound`). So if the file is now what the key
names, the structure is of that version (`SteadyShape`). It holds for any
number of requests and however the unlocked operations interleave.

**ServingProofs**, the reading session: `SessionTypeCorrect`, `Land`, for any
package. That a link, an entry of the contents or a stored position leads to the
document it names is a fact about the reading order: every member of it has a
first and a last place (`LeastNatural`, `GreatestNatural`), and at either place
is that member. `SessionInv` adds that the script's index and the chapter in the
frame are places of the order of the book that is open.

**ServingProofs**, the feeds: `FeedTypeCorrect`, `QuietCrawls`,
`GrowingCrawls`, for a catalog and pages of any size. A page is the books whose
position, the number of those before them, lies in a range. Every position is
less than the number of books (`PositionsBounded`), and the page after the last
begins no earlier than that number (`PagesCover`, the arithmetic of
`total_pages`). So the invariant only says where the client stands: in a quiet
crawl it has seen exactly the books before its page (`QuietSoFar`), in a growing
one no book of the beginning that it has not seen is behind it
(`GrowingSoFar`), since an addition can only move a book forward
(`PositionsGrow`). The order need not be total for either.

**ServingProofs**, progress: `ProgressTypeCorrect`, `Created`, `FreshWrite`,
`ProgressRefines` (`ProgressionSpec => ImplementsRegister`), `Monotone` (when
every key is serial). `ProgressInv` says that a record never disappears and that
a request in service has a key, a record and the snapshot its phase needs.
`SerialInv` adds for serial keys that one request is in service (`Undisturbed`)
and that what it read is what is stored (`Current`), so `Merge` yields the record
asked for.

**The five together**: `ServingParts` and `UpkeepParts` say that a behaviour of
the union that a run checks is a behaviour of each of its parts, so that every
theorem above holds of the run's specification too; `ServingTypeCorrect` and
`UpkeepTypeCorrect` are the type invariants of the unions.

Only model-checked, and why:

- `EveryJobSettles`, in both job runs: liveness under fairness is outside the
  prover's reach.
- The violations: a run shows the behaviour, there is nothing to prove.

Every other property of a passing run is a theorem.

Attempting the proofs changed some models. The overlapping `CASE` arms that stood
for the scores of a match were an `IF` in disguise: TLA+ leaves open which of two
true arms is taken, TLC takes the first, and the provers rightly refused; they
are now the sequence of tests the code makes. `SchemaMigrations` has the
assumption `RevisionsOrdered`, which was implicit in its lists. `CacheEviction`,
`X4Rendering` and `ReadingSession` filtered and added up with library operators
that the provers know by name only; the definitions of `Selections` have the same
values, and can be reasoned about. And what was claimed of the jobs beside a
drain, that settled ones of other types stay settled, turned out to be a small
part of what could be proved: the run now checks the refinement.

## 5. Plan

1. Done: all components that keep state of their own; proofs of every property
   of the passing runs but liveness.
2. Next to prove, once the models below exist: that scan and pools together
   still implement `JobLifecycle`, the way `OthersRefine` does it for the drain.
3. Next to model: overlapping scans and nested libraries in `LibraryScan`; a
   scan, its lookups and an edit composed (`LibraryScan` with `JobWorker` and
   `MetadataCuration`); series, authors and identifiers in `MetadataCuration`,
   with the status of the candidate applied (`MatchReview`).

## 6. Not modelled

- Format handlers (EPUB, PDF, CBZ) and archive checks: they parse the bytes of
  one file into a record, without state or concurrency; what could be said of
  them is about text and bytes. Scan and reader take their result as given.
- The wording of pages, feeds and covers: templates, serialization, XHTML
  rewriting, images. Navigation feeds and single pages are one read each.
- FTS5: the translation of a query and the ranking. `CatalogFeed` lets the order
  change with every change of the catalog.
- The provider: an HTTP client, present as an answer that arrives late or not at
  all, with any volumes in it.
- Configuration, read once and never written, and the commands of the CLI that
  call one service operation each (`enrich`, `user create` and the migrations
  at every start are modelled).
- Of modelled components: `change_password` and the role check; series, authors
  and identifiers as several rows; overlapping scans and nested libraries;
  covers; symbolic links in the cache, and in a library those that lead out of it; the `extract_metadata` job, which nothing
  enqueues.
- Wall-clock times appear only as ordered timestamps; file contents only as
  hashes and versions.
