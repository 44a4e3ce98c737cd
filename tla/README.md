# A specification of ImplCache in TLA+

ImplCache is a local MCP server over one SQLite file. It ingests documents,
project trees, PDFs, mirrored web sites and Git repositories into a corpus of
documents and chunks, keeps that corpus in step with its sources, and answers
searches from it. This directory holds TLA+ modules of its stateful core, the
TLC configurations that check them, and TLAPS proofs about them.

## 1. The system

| component | state it keeps | operations | what makes it hard | what makes it correct |
|---|---|---|---|---|
| corpus store (`store/store.go`, `term_df.go`, `semantic.go`, `librarian.go`) | `documents`, `chunks`, term vectors, postings; the running statistics `term_df` and `root_chunk_stats` | `UpsertDocument`, `DeleteDocument`, `DeleteDocumentsByURIPrefix`, `DeleteDocumentsWithoutChunks` | the hash check precedes the transaction; a replaced document may change root; statistics are deltas, never recomputed | URI is a key; chunks are those of the stored hash; statistics equal a scan |
| source rows (`store/web.go`, `store/repo.go`) | `web_pages`, `repo_files`, with `ON DELETE SET NULL` links to documents | upserts, `MarkMissingWebPages`, `PruneWebPages`, `DeleteRepoFilesNotSeen`, `DeleteRepoFileByPath`, source deletes | the sweeps select first and delete later, row by row, outside a transaction | links never name a wrong document; statistics stay meaningful |
| web crawl (`web/`) | the crawl's queue, seen set and snapshot of rows; generations, `missing_count` | `CrawlSite` | the site changes and fails; 304 answers; errors of the row write are dropped; prunes and deletes run beside it; a crawl may stop anywhere | a row says what its document holds; live pages are not pruned; a crawl ends and is complete |
| Git ingest and refresh (`gitrepo/`, `ingest/project.go`) | `repo_sources` (commit, status), `repo_files`, the root's documents | `IngestRepo`, `refreshManaged` | one transaction per file; per-file errors are warnings; a diff may fail, or be misread or cut without an error; the remote moves; cancel and crash | the root equals the commit; a full ingest repairs it |
| job tracker (`librarian/ops*.go`) and the jobs API (`httpapi/jobs.go`) | `ops`, `runtime` with cancel functions and subscriber channels | `Start`, `SetCancel`, `Update`, `Finish`, `Cancel`, `Subscribe`, unsubscribe, trim | Start/SetCancel, Get/Cancel, Get/Subscribe are separate critical sections; channels are bounded and are closed by two parties; the registry is bounded | no send on a closed channel, last event delivered, terminal states final, streams end |
| PDF ingest (`pdf/`, `store/pdf.go`) | `pdf_sources`, `pdf_pages` and the document | `IngestPDF`, `RemovePDF` | the file is read up to five times; two transactions; a hash that ignores the page range; `force`; an outline that overlaps, leaves gaps or runs past the range | the link is the document of the same URI; the row describes the document; a chunk cites all the pages its text is from |
| usage analytics (`usage/`, `httpapi/analytics.go`) | a bounded channel to one writer, its batch, a drop counter; in a database of its own the event tables and the settings, which are also in memory | `Open`, `Close`, `Record`, the writer's loop, `PurgeExpired`, `ClearAll`, `UpdateSettings` | full queue, failed batch, stop with a timeout, crash; purge and settings read before they write; flags against persisted settings | no part of an event without the event; order kept, nothing twice; a stop drains the queue; saved settings are those in force |
| usage reports (`usage/context_event.go`, `query.go`, `export.go`) | none (reads) | event builders of each tool; summary, timeseries, coverage, grounding, efficiency, knowledge, requests, detail, export | builders that differ per tool; several statements per report, in no transaction; tokens rescaled with integer division | outcomes add up to totals; sections agree as far as the tables stood still |
| search and ranking (`store/store.go`, `semantic*.go`, `symbols.go`) | none (reads) | `SearchOpts`, `FindSymbols`, term selection, diversification | stages are separate statements over a corpus that changes | scope and limits respected |
| implementation context (`implctx/`, `store/recipes.go`) | the package under construction | `Get`, recipes' upsert, review and deletion | some twenty reads, each of another corpus, and most of the later ones without a filter of roots; reserves, pins and caps compete; a trim loop with rounding | evidence only of documents that the roots of the request held; every kind of source cited; lines are those of the text shown; no root starved |
| roots and knowledge groups (`store/roots.go`, `rootgroups*.go`) | `root_groups`, `root_group_members` and a config file | `ResolveRoots`, `ValidateRootScope`, `ExpandKnowledgeGroup`, `UpsertKnowledgeGroup`, `DeleteRootGroup`, `ApplyRootGroupsFile` | roots, groups, row and members are read one statement at a time; policies, roles, caps and inference interact | unrelated corpora are not mixed; projects asked for are searched |
| LibraryDocs (`librarydocs/`, `ingest/project.go`) | a synthetic document per root that records the package; `authority` and `deprecated` of the documents | `IngestProjectOpts`, `applyProjectLibraryDocs`, `PersistMeta`, `ApplyTrustUpdates` | the live tree is read twice, before and after the files are stored; runs overlap without a lock; trust is one statement per file, with errors dropped; an equal hash keeps the old trust; what cannot be ingested keeps the old document; filters replace one another | trust agrees with the synthetic document; an undisturbed run repairs the root |
| schema, chunking, librarian reports, MCP tools, REST API, UI | see `PROJECT.json` | | | |

How they meet. The ingesters (project, web, Git, PDF) all write documents
through `UpsertDocument` and keep their own rows, which point at document ids.
REST handlers and MCP tools start a crawl or a Git job, register it with the
tracker and, in the REST case, attach a cancel function; the job reports
progress through the tracker's channels to any number of SSE handlers. Search
reads the documents, the chunks and the running statistics. The database is
opened with WAL and one connection per process: a transaction is atomic, but a
function that uses several statements or transactions is not, and any other
goroutine may run between two of them.

`PROJECT.json` lists every component with its status, and the hazards: each
place where this code can go wrong in a way that a test would hardly reach,
with the properties that cover it.

## 2. The modules

| module | models | state | extends / is used by |
|---|---|---|---|
| `DocumentStore` | the corpus store | `documents`, `chunks`, `df`, `chunkCount`, `nextId`, `pending` | composed into `SourceRows` |
| `SourceRows` | page and file rows, the sweeps, the source deletes, over the store | the above and `rows`, `nextRowId`, `sweep` | EXTENDS `DocumentStore`, INSTANCEs `Corpus` |
| `Corpus` | what the corpus promises its readers | `held`, `given` | implemented by `SourceRows` |
| `WebCrawl` | `CrawlSite` with the prune and the deletes beside it | `site`, `pages`, `docs`, `crawl`, `pruned`, ... | |
| `RepoSync` | `IngestRepo` and `refreshManaged` | `head`, `source`, `rows`, `docs`, `job`, ... | |
| `JobTracker` | the tracker with its jobs, cancel handlers and event streams | `ops`, `runtime`, `worker`, `stream`, `request`, ... | |
| `UsageStore` | the analytics store with its writer, timers and handlers | `phase`, `meta`, `cfg`, `rows`, `details`, `calls`, `queue`, `batch`, `writer`, `edits`, `cutoff`, ... | INSTANCEs `EventLog` |
| `EventLog` | what the pipeline promises | `pending`, `stored` | implemented by `UsageStore` |
| `UsageReports` | the events that tools build and the reports over them | `events`, `present`, `report` | |
| `PdfIngest` | `IngestPDF` and `RemovePDF` beside the deletes | `disk`, `documents`, `sources`, `job`, ... | |
| `KnowledgeGroups` | the resolution of a request's roots beside the edits of groups | `corpus`, `groups`, `doomed`, `file`, `request`, `stage`, what it has read, `answer` | |
| `Retrieval` | what the statements of a search return, recipes, and the editors beside a request | `corpus`, `past`, `recipes`, `edits` | composed into `ContextPackage` |
| `ContextPackage` | `implctx.Get` after the roots are resolved | the above and `request`, `stage`, `todo`, `search`, `hits`, `pkg`, ... | EXTENDS `Retrieval` |
| `LibraryDocs` | a project ingest with the trust of its `LibraryDocs/` package | `files`, `package`, `manifest`, `docs`, `meta`, `job`, ... | |
| `RowsAndReportsProofs`, `WebCrawlProofs`, `RepoSyncProofs`, `UsageStoreProofs`, `KnowledgeGroupsProofs`, `LibraryDocsProofs`, `ContextPackageProofs`, `JobAndPdfProofs` | proofs; those about `DocumentStore`, `SourceRows` and `UsageReports` are in `RowsAndReportsProofs`, those about `Retrieval` in `ContextPackageProofs`, those about `JobTracker` and about `PdfIngest` in `JobAndPdfProofs` | | EXTEND the modules they are about |
| `MC*` | constants for TLC | | EXTEND the module they check |

In every module an action is a critical section of the code: a SQLite
transaction, a single statement outside one, or a hold of the tracker's mutex.
What the code remembers between two of them is a variable (`pending`, `sweep`,
`crawl`, `job`, `request`, `stream`). Where a function drops an error
(`_, _ = st.Upsert...`), the failing outcome is a branch of the action.

Definitions marked *Mutated form* are plausible mistakes in the operator they
precede (a dropped guard, a swapped order, a missing retraction). No action uses
them. Substituted for that operator they make the property named in
`PROJECT.json` fail, which shows that the property depends on the code.

**DocumentStore.** `MissHash` is the `GetHashByURI` check before the
transaction, `CommitUpsert` the transaction (which looks the URI up again),
`AbortUpsert` its rollback. `Retract` is the common body of the three deletes.
A content stands for its hash and has a fixed sequence of chunks, each a set of
terms; FTS rows and symbols are left out because triggers and cascades tie them
to chunks and documents. `Retracted` is the UPDATE guarded by `> 0` with the
DELETE that follows it. TLC checks the module as a part of `SourceRows`.

**SourceRows.** `stale` abstracts the WHERE clause of a sweep. `BeginSweep` is
its SELECT; `SweepDocument` and `SweepRow` are the two DELETEs of each row;
`AbortSweep` an error or a crash. `DeleteRowsDocument` is the plain
`DELETE FROM documents`: cascade, but no retraction. `Readers` is the instance
of `Corpus`: `Held` gives each URI the id of its document and what its chunk rows
show, `given` is `1 .. (nextId - 1)`. The sweeps and the source deletes are
`Remove`, although they leave the statistics behind; a miss, an abort and a row
write change nothing a reader of the corpus sees.

**WebCrawl.** One iteration of the loop is a fetch with its document
(`FetchFails`, `NothingStored`, `NotModified`, `FetchPage`) and then `SaveRow`,
whose error the code drops: the row may name a document that was deleted since.
`EndCrawl` is `MarkMissingWebPages`. The site is the environment. The links of a body
are a set, because the code queues a link that it has not seen once, and are
queued in any order: `Orders`. `Within(n)` are the URLs that live pages link from
the seeds by paths of at most `n` links, the reference for what a crawl of
`MaxDepth` ought to find. Two components of `crawl` and the variable `torn` are not in
the code; they record what happened so that the properties can name it.

**RepoSync.** The phases of a job are those of the code: `checkout`, `index`
(one file per step), `drop` (the removed paths of the diff), `rows`, `mark` (the
refresh that walked everything), `sweep`, `finish`. A diff is what git prints, as
far as it is read back: `Lines` has a line of words for each path that was modified, added
or deleted, and for each pair that git takes for a rename, any pairing (`Renames`); a
path with spaces is several words, quoted bytes are a word that is no path (`Words`).
`Outputs` is what `limitedWriter` keeps of more lines than `MaxLines`: some of them, and
perhaps a part of one more. `ToIndex` and `ToDelete` are the loop of
`DiffNameStatus`; what they name is passed on as it is, through the filter and the lookup
of paths that exist (`CheckoutDiff`). A diff that fails, which the write that crosses the limit
may also make it do, leads to `CheckoutNoDiff`. `Changed`, `Removed` and `ReadRight` are not in the
code: they say what the diff means, and whether it was read as that. `tried`,
`clean`, `fellBack` and `strays` are not in the code; they record since when and
how the root may have left its commit. `tried` holds the commits of attempts since
the root last mirrored one, or `Anything` once the root may hold what no commit
explains: a delete, a job that finished distrusted, or the sweep of a job that gave
files up, which takes their documents. A diff that was misread counts as something given up
and leaves `Anything`.

**JobTracker.** `Start` and `SetCancel` are the REST handler's two calls (the
MCP tools only make the first); `CancelGet`/`Cancel` and
`EventsGet`/`Subscribe` likewise. A channel is a bounded queue with a closed
flag. `stamp` numbers the events of an operation.

**UsageStore.** A request's `Record` is two steps, the check of the settings
(`Check`) and the send (`Enqueue`), because the store may close in between. The
writer's select is `Take`, `SeeDone`, `Drained` and `Flush`; `FlushDue` says when
`flush` is called: at a full batch, at a tick, and at the end of the drain.
`Flush(FALSE)` is a batch that fails, also because `CloseDb` ended the wait of
`Close` and closed the database first. A purge is `PurgeBegins` (settings and
cutoff) and `PurgeEnds` (transaction); a save of the settings is `Merge`
(the handler reads the configuration), `Commit` and `Assign`. `Open` lets the
persisted settings win over the flags. Times are days; an event is the id of
its request; `details` stands for `request_roots` and `evidence_events`. The
mark `late` of a call, an event queued after `Close` began, is not in the code, and
neither is `crossed`: the last save was committed while another one was committed and not yet
assigned.

**EventLog** is the abstract specification: events are accepted in some order, leave
from the front, written or lost together, are forgotten at will, and none waits
forever. `UsageStore` implements it with `pending` the batch followed by the
queue and `stored` the requests with a row.

**UsageReports.** A call of a tool becomes an event by that tool's builder
(`EventOf`): `FromImplementationContext` with its citations classified, its
status derived and its tokens rescaled (`Shares`), or the events that the search
and document tools fill in themselves. `InsertBatch`, `PurgeExpired` and
`ClearAll` change the tables in one transaction each. A report is a sequence of
statements (`Plan`); `Statement` answers the next from the rows that are there
then, `Fail` ends it, except where the code drops the error (`Optional`).
`Ambiguous` are the statements that SQLite refuses when a root filters them.
`kept` and `seen` are not in the code: the rows there throughout, and at any
time, during the report.

**PdfIngest.** One action per read of the file and per transaction, in the
order of `IngestPDF`. `Sections` and `Chunks` are `BuildSections` and
`ChunkSections` as functions of page texts, outline and range. `force` is a
fact of the request: `GetHashByURI` does not compare, `UpsertDocument` skips an
equal hash all the same, and `UpsertPDFSource` runs. `unsettled` is not in the
code; it holds the URIs whose document and row do not come from one request.

**KnowledgeGroups.** `Ask` starts a request of the search or of the context
tool; `ListRoots`, `ReadGroupOf` (one root at a time), `LookupRow` and
`LookupMembers` are its statements, `JudgeScope`, `JudgePolicy`, `JudgeShared`
and `ExpandListed` what it decides between them. `Expand` with `ByRole` is
`ExpandKnowledgeGroup`; `ByFamily` is the fallback of `ValidateRootScope`;
`Inferred` scores the cues of the query. `FindDoomed` and `DeleteGroup` are the
lookup and the transaction of a delete. A key that matches the id of one group
and the name of another returns either (the query has `LIMIT 1` and no order);
`NotMixed` is therefore claimed of tables in which no key does (`Unambiguous`).

**Retrieval and ContextPackage.** A chunk is named by document, revision and
ordinal; what a stage remembers between statements are such names. Each revision of a
document has its row as well (`Profile`: root, authority, version, archived), because
`UpsertDocument` replaces both. A hit has the chunk it shows and the row that came with it: the
same revision in a search, which joins the two, and perhaps another where
`GetDocumentByURI` reads first the row (`ReadRow`) and then the chunks (`ReadCited`,
`ReadSignals`). `past`, the revisions of a document since the request began, is not in the
code. A document that is deleted and made anew between row and chunks has another id and no
chunk to show; the model lets it pass for the old one, so that it allows more than the
code does. `UpdateDocumentTrust`, which changes the authority only, is not among the
editors. The stages
of a request are those of `Get`: recipe, symbols, a search per root (full text with
all terms, with any, by title, frequencies, postings, hydration), cited
documents, signal chunks, bodies, symbols harvested from the text, extraction
and selection (`Assemble`), the rounds of the trim, the seal. Each is one
statement, and the editors of `Retrieval` run between them. Functions that only
compute (`FindSymbols`, `LookupTerms`, `Diversify`, `SelectCitations`,
`SelectSymbols`, `Cut`) are operators. BM25 and the texts are constants. Where the
code sorts, the model takes the one sequence that its comparison allows
(`Sorted`), so `OrderAssumption` excludes ties: documents differ in `bm25` and
in the place of their names, recipes in `created`. With equal keys SQLite or a map's
order decides in the code; nothing that is stated depends on which of the equals comes
first.

**LibraryDocs.** A run (`job`) is `IngestProjectOpts`: `Begin`, then for each
file of the walk `ReadFile` and `StoreFile` (hash check and upsert), then
`applyProjectLibraryDocs`: `Detect` (manifest, directory, index, inventory),
`ScanFile` for each file of the package, `Validate`, `PersistMeta`, one
`UpdateDocumentTrust` per file, `Finish`. `CallFails` is a call of the store
that returns an error, which every caller here notes or drops; `Stop` is a crash or a
cancelled request. The edits of tree, package and manifest, the deletes and
`IngestMarkdown`, which writes the same documents, run beside it. `Admits` is the filter of the walk,
with `PathFilter` TRUE for the full walk of a Git refresh, which brings its own. A
content is the front matter of a file and what an ingest makes of the rest (`load`): text,
blank, or refused with an entry of `Errors` (too large, unreadable, a symbolic link, HTML that cannot
be converted). `Ingestible` is the test in the middle of `ingestProjectFile`: blank HTML is
skipped and reported as skipped only. The front matter is that of Markdown files
(`FrontMatter`), which the second reading takes also from a file that was refused. The rows of the
inventory are one for all files, and the hints of the index are part of it. `clean` and
the components `solo` and `calm` of a run are not in the code: they say what happened
beside it.

## 3. The runs

| run | shows | bounds |
|---|---|---|
| `rows` | under concurrent ingests and deletes chunks are those of the stored hash and statistics exact, but for what the sweeps leave behind; df stays at most N, and drift is permanent | 2 URIs, 2 roots (a replace may move a document), 2 terms, contents of 2, 1 and 0 chunks, 2 symmetric writers, 1 sweeper, a web and a Git source with one key, 2 document ids, 1 row id |
| `jobs` | the tracker's safety, and that early streams end | 2 jobs, a registry of 1 (so a start trims, also a running job), 1 stream, channel capacity 1, 1 cancel handler, 2 clock values, 2 progress events |
| `web_crawl` | row/document agreement, no live page counted as missing by a full crawl, completeness, termination | 2 URLs, 2 bodies (one with an ETag and a link), depth 1, threshold 1, 3 crawls, 2 edits or deletes |
| `live_pages` (violation) | a refresh counts live pages as missing | as `web_crawl` |
| `repo_sync` | the root mirrors its commit unless a diff was misread; a full ingest repairs it | 4 paths, one with a space in its name whose first word is another path, one that the filter excludes; 3 commits with changes, additions, removals and possible renames, 2 lines of output, a file limit of 2, 3 jobs, 1 delete; one file is the same in two commits |
| `removed_paths` (violation) | a full refresh keeps removed paths | as `repo_sync` |
| `usage` | whole events, drained stops, settings in force, and the refinement of `EventLog` | 2 requests, one with details, beside 1 save, or no request and 3 saves, by 2 administrators; a queue of 1 and a batch of 2, retention of 1 day or unlimited, 3 days, 2 runs of the process |
| `groups` | which roots a request may search: no mixing, and no project dropped that was asked for | 4 roots in 2 families and one alone, 2 names, 2 definitions, a file of 2 groups, an id that is another group's name, 12 requests, 3 edits |
| `context` | packages: scope also of documents that move, diversity, line numbers, no starved root | 5 documents in 3 roots, of 3 revisions each (three documents move to another root and back), 1 recipe, 6 requests (budgets from 20 tokens to none), 2 edits, 3 results |
| `pdf` | links, citations and rows of ingested PDFs | 2 files of one URI, 3 contents (outline with gaps; no outline; encrypted), 2 ranges, 2 requests at a time and 3 in all, 1 edit of a file, 2 document ids |
| `reports` | sums of the reports, and what one report may see of changing tables | 2 requests, 8 calls (each way to record), 2 times, 4 filters, pages of 1 and 2, evidence and rankings capped at 2, 1 change per report |
| `libdocs` | trust agrees with the synthetic document; an undisturbed run settles the root | 4 files (guide, index, an HTML page, junk), 4 contents (one refused, one blank), 4 packages, 5 first trees, a file limit of 2, 2 runs at a time and 3 in all, 1 edit, 1 failed call |

Why these bounds are enough. Two writers suffice for every race of the hash
check, because a transaction is atomic and a third writer sees only what one of
the two left. Two roots and a shared term distinguish retracting from the old
root and counting in the new one. Two document ids let a document be deleted
and its URI ingested anew while a sweep still remembers the first id; the id
bounds only stop inserts. A registry of one and a channel of one make trimming and
dropping the common case. Three crawls are what it takes to index a site, change
its rows in a stopped or failed crawl, and observe the effect in a third; two edits allow a
page to change and to change back. Three commits give a refresh from an old to
a new commit with an attempt at a third between; the last commit exceeds the
file limit. A deletion of "a b" is read as one of "a", and a diff to or from the last commit has
one line more than is kept, which may be that of the excluded file: misread and well-read
diffs, cut or not, are all reached. A queue of one is full after one request, and a batch of two makes
both the full batch and the one that waits for the ticker reachable; two runs
of the process let the second find the settings and the rows of the first. Three
saves of two administrators are two that cross, in either order, and one that has to repair
what they left; requests and more than one save are not combined, since nothing but the
flag and the days of a save meets a request, which one save shows. An
edit during a package puts a statement on either side of a re-index or a
delete, which is what every stale name in it comes from, and a second one lets
a document that was deleted be indexed again, or one that has moved move back; three edits of groups
allow two groups to be put, and one of them deleted or replaced between two reads. Two PDFs of one name and two
requests at a time interleave two ingests of a URI at each of their nine steps;
the third start lets a delete or a retry follow. Two requests and one change per
report are enough for a section before and one after the change; symmetric
requests and files are taken as such. Two runs of a project ingest interleave
walk, synthetic document and trust of both; the third starts after them and is the
one that must repair what they, an edit or a failed call left. The file limit
is passed when an edit adds the page to a package; without a package the page is there from the
start, so that a run may store it before an edit makes it blank.
`MaxDocId`, `MaxRowId`, `MaxCrawls`, `MaxEdits`, `MaxJobs`,
`MaxDeletes`, `MaxTime`, `MaxStamp`, `MaxDay`, `Loads`, `MaxOpens`, `MaxStarts`,
`MaxFaults` and `MaxChanges` are bounds of the models; `MaxKeep`, `Buffer`, `QueueSize`, `BatchSize`, `MaxDepth`, `Threshold`, `MaxFiles`, `MaxLines`, `MaxPages`, `MaxResults`, `MaxExamples`, `MaxAugment`,
`MaxPerDocument`, `EvidenceCap`, `RankLimit`, `DefaultPage` and `MaxPage` are parameters of
the code with small values; `MaxRounds` is its 40.

**Fairness.** `JobTracker`: weak fairness of a job's own steps (`SetCancel`,
`Finish`), because the work of a job is bounded by page, file and time limits, and of an
SSE handler's steps, because the Go runtime schedules it; no fairness for
clients connecting, disconnecting or cancelling. `WebCrawl`: weak fairness of
`CrawlStep`, because every fetch has a timeout and the loop has no other wait.
`UsageStore`: weak fairness of the writer's steps (the scheduler runs it and its
ticker fires every half second), of `CloseDb` (the wait is a second at most) and of `Exit`
(main returns after it); none for requests, administrators, timers and clock.
The other modules state only safety and assume none.

**Deadlock** is checked except in `web_crawl` and `live_pages`, where every
crawl and every edit may be used up, in `usage`, where the process may stay
down, in `pdf` and `libdocs`, where the starts are used up, and in `context`, which follows
one request to its end: the system then legitimately rests.

## 4. What is proved

The theorems hold for all values of the constants that satisfy the named
assumptions of the modules, which say what a constant is (the chunk table is a
function into sequences of sets of terms, a PDF that can be read has a page, a call has
a number of hits or citations,
bounds are natural numbers, a null value is no record), and which TLC evaluates
in the runs.

`RowsAndReportsProofs`, the corpus:

- `StoreIsConsistent`: types, keys, and `IndexMatchesHash`.
- `StatisticsAreExact`: `StatsExact` of the store alone, without the sweeps.
- `RowsTypes`, `IndexFollowsHash`, `CountersNeverUndercount`, `DfIsARatio` and
  `DriftIsPermanent` (which is `OnlySweepsDrift`)
  of the store with the source rows and their sweeps.
- `RowsImplementCorpus`: the refinement of `Corpus` by the same (`ImplementsCorpus`);
  no run checks it, the theorem does for all constants.

The argument. `StoreBase` (types, keys, chunks equal to those of the stored
hashes) is inductive by itself. It is what makes the arithmetic go through:
because ids are keys and fresh, the chunk rows that a transaction inserts are
disjoint from those that stay, so every write of the store is one *swap* of a
finite part of `chunks` with the counters moved by the sizes of the parts
(`StatStep`). `CardinalitySwap` and `ExcessKept` turn that into: each counter
keeps its excess over the scan, and the floor of `Retracted` never cuts. The
excess is zero at the start, hence `StatsExact`. The sweeps are a second kind of
step (`DropStep`): chunks go and counters stay, so the excess of `chunkCount`
grows by at least as much as that of any `df` (`DropRaisesExcess`). The
invariant `IInv` is `StoreBase`, the row types, `NeverUndercounts` and
`ExcessOrdered` (the excess of a df is at most that of its chunk count).
`ExcessOrdered` is the strengthening that `DfWithinChunkCount` needs: a
retraction lowers both counters, and only the order of their excesses keeps the
smaller below the larger. The refinement uses `StoreBase` only: since the
chunks are those of the stored hashes, what is held of a URI depends on its
document row alone (`HeldWhole`), and a step on the document rows is one of
three kinds, one row more under a fresh id, one row replaced under its id, or
rows gone (`DocumentSteps`).

`JobAndPdfProofs`, the tracker: `TrackerTypes`, `NoDeadChannel`, `StreamsAreUpToDate`,
`CancellingHasCancelled` and `FinishedStaysFinished`. No property is inductive by
itself. That a publish meets only live channels needs the reverse too: until its job
ends, every open stream is subscribed, and a handler that has only looked the
operation up has no closed channel yet (`Subscriptions`). `UpToDate` rests on that,
because only a subscribed stream gets the next stamp; `TerminalIsFinal` on
`FinishedIsDone`: the worker of a finished operation makes no further call.

`UsageStoreProofs`: `UsageTypes`, `NoOrphanedDetails`, `StopLosesNothingQueued`,
`UsageRefinesLog` and `SavesPersist`. The invariant follows an event from the call to the row: a
request that has not sent its event has it neither in queue, batch nor tables
(`NotYetRecorded`), the writer drains only while `Close` is under way
(`WriterFollowsClose`), and once the drain found the queue empty only late calls can
put something there (`DrainedIsLate`). `NotYetRecorded` is also what the refinement
of `EventLog` needs: an event is accepted at most once. The liveness of `EventLog`
is left to the run. `SavesPersist` is of any number of
administrators and saves: memory and table agree but for what a save has committed and not yet
assigned, or saves that cross have left apart (`SavedOrUnderWay`). As long as no save was
committed into another's gap, at most one is in it, and what it will assign is what the
table holds; the next save that finds the gap empty begins that anew.

`JobAndPdfProofs`, the PDFs: `PdfTypes`, `LinksAreOwn`, `CitationsHold` and `RowsDescribe`. The
first half is about the pure functions: a page range selects an interval that is
not empty (`SelectedPages`), every section is a range in order from the first
selected page on (`SectionsAreRanges`), hence so is the citation of every chunk, and
its text comes from selected pages in that range (`ChunksCite`). The second half
is the interleaving: ids are never reused (`DocumentIds`), so the id a request has
looked up names the document of its URI or none (`FoundIsOwn`); and as long as a URI is
settled at most one request is between its two transactions, and its data is that
of the document (`SettledByOne`). A refused foreign key therefore means that there is
no document to describe.

`LibraryDocsProofs`: `LibraryDocsTypes`, `MetaExplainsTrust` and `CalmRunsSettle`.
`MetaAgreesWithTrust` speaks of the time after a run; its invariant (`AgreeInv`)
follows the run that is alone: every file it has found lies in the package
(`FoundInPackage`, `Packaged`), nobody else is active while it is `solo` (`Alone`), and
between `PersistMeta` and `Finish` each document outside `todo` already has the trust that `meta`
explains (`Explained`). `CalmRunSettles` needs the history of a run as well (`Settling`):
what it has stored, detected and scanned so far is what the tree holds now, because
nothing moved. At most one run can be undisturbed (`OneRunSettles`), so the
steps of the others need not preserve it.

`WebCrawlProofs`: `CrawlTypes`, `RowsMatchDocuments` and `FullCrawlsFindLive`, of any
site, graph of links, depth and number of crawls, prunes and deletes. The queue
has each URL once, all of them found (`QueueShape`), so a page is fetched once and
the snapshot taken at the start is still right about it: `Matching` says that a
row, the snapshot of a URL not yet fetched, and the row about to be written name
the document that is there, or none. That nothing live is missed rests on the
order of the queue. Depths never decrease along it and differ by one at most
(`DepthsSorted`), everything linked as near as the head is found, and no
queued page is linked from nearer than its depth says (`Frontier`); so a page that is
fetched at the last depth, whose links the code ignores, is within no shorter
distance, and every other fetched page has its links found (`Followed`). When the queue is
empty the greatest `n` with `Within(n)` found is `MaxDepth` (`AllFound`); it exists
because the numbers are well-founded, which takes the place of an induction. With
`Recorded`, which says that each fetched page has a row of this crawl, the final
`MarkMissingWebPages` counts none of them.

`RepoSyncProofs`: `RepoTypes`, `RootsMirror` and `IngestsRepair`, for any tree, file
limit and number of jobs. A new generation is above every other because the set of
generations is bounded by the jobs begun (`GenerationIsNew`). `CleanWalk`, `OthersOld`,
`Dropped` and `StraysKnown` say, phase by phase, what a job that gave nothing up has
done so far and what it has left; `History` relates the root to the attempts since
it last mirrored a commit: if all were at one commit, every document is that of the
old or that of the new commit, and a file that is the same in both is still
recorded (`Between`), so that the diff of a retry names all that is missing.
That it is read as what it names is a hypothesis of the history (`clean`), for a refresh cannot know it;
`PlainDiffsAreRead` discharges it where the paths are single words and the output fits,
whatever pairs git takes for renames, because `Renames` pairs each path at most once.

`KnowledgeGroupsProofs`: `GroupTypes`, `CorporaAreNotMixed` and `ProjectsAreKept`. A
request that nobody disturbs reads one state of the tables, one statement at a time:
`RowRead`, `IdsRead` and `Judged` say of every stage what of that state it holds.
`IdsUnique` is the unique index, kept by `UpsertKnowledgeGroup` and by the file alike. The
answer is then a question of `Expand` only: it returns members that are present and
only for a group that allows it, and the cap drops none of the projects named.

`ContextPackageProofs`: `PackageTypeCorrect`, `EvidenceStaysInScope`,
`LinesAreThoseOfTheText`, `DiversityIsKept` and `NoRootStarves`, for any corpus,
recipes, requests, sizes and limits. A first part says what the operators of
`Retrieval` return: an order without ties gives every element one place
(`Ordering`), a selection keeps the elements and their order (`Selection`,
`DistinctElements`), and what a recursive function does at each step it does along the whole
chain (`Recursion`, `AlongChain`, by the least exception in place of an induction). The
invariant (`IInv`) follows the evidence through the stages: what a search holds is under the
roots it asks (`SearchSound`), what a stage has still to read lies in scope
(`TodoSound`), and every hit shows the chunk whose lines it cites, since ids are not
given twice (`ScopedHit`), so each step from recipe to seal keeps the package
sound (`SoundPackage`). The roots of documents change under the request, so scope is
relative to `past`, which only grows: what was in scope stays so under every edit (`Growth`,
`WiderSequence`). A document gets into scope by a statement that filters by root
(`UnderScope`, `StoredSymbol`); from then on it is read by URI or id, and every chunk, row or symbol that
is found is of a revision that it has by then (`RowSound`, `RowInScope`). The row and the
chunks of `GetDocumentByURI` may be of two revisions, both of them in `past`. A
cut of the package only drops, and so keeps it (`CutPackage`).
`DiversityIsKept` needs where the reserves stand: `SelectCitations` puts the
first of every bucket among the first four places, the three spared buckets
before the recipe (`SelectedCitations`), and a cut keeps three citations
(`DiverseWhileTrimmed`). `NoRootStarves` is strengthened to `NobodyStarves`: while
the searches run, a root with something to say has a hit already or its own search
is due, and a search under way that could find something has found it, because of
the three statements the one with any term runs whenever the one with all finds
nothing; diversification and limits keep the best hit of each search.

`RowsAndReportsProofs`, the reports: `ReportTypes`, `SectionsReconcile` and
`ReportsAreBracketed`, for any calls, filters, bucket widths and limits. The reports add up
by folds over finite sets. `SumFunction` is therefore first compared with `Sums`, the
table of the sums over all subsets: a set of subsets that has `{}` and every extension
by an element has all of them (`AllSubsets`), and from that come the laws the proofs
use: a sum over fewer or smaller amounts is smaller (`SumGrows`), sums add
(`SumAdded`), a sum of ones is the cardinality (`SumOfOnes`), and the sums by a key add
up to the sum (`SumByKey`). The second part is the rows: whatever handler built
it, an event has one of seven statuses, a choice has the status of one, a curated event is
grounded, and structured and raw tokens make up the whole (`RowsAreSound`, whose
lemma `SharesAddUp` is the integer division). `ReportsInv` says so of every
recorded row, and that what a statement sees lies between the rows that stay and those
ever there (`ReportBetween`). `ReportsReconcile` is then a question of what one statement
answers (`Reconciled`), since nothing changes an answer. For `SectionsBracketed` the numbers
of each section are the weight of the rows it selects, the points of a timeseries by their
bucket and the uses of roots counted by request instead of by root
(`RootsWeigh`), so they lie between their bounds when they are given, and the bounds only
widen: rows that are recorded never change (`BracketStays`).

Three of the proofs changed the model or the claim, because the attempt
showed that it was false beyond the small instance. `RootMirrorsCommit` forgot that the
sweep of a job that gave files up deletes their documents. `NotMixed` needs
`Unambiguous`. And the crawl was claimed for lists of links that happened to have no
duplicates. The instances of `repo_sync` and `groups` now reach the cases that were missed.

Only model-checked: all liveness, which is out of the prover's reach, and the rankings and
token sources of the reports, of which the properties state no more than what a complete
ranking of the roots amounts to.

## 5. Findings

Two have a run in which TLC finds the violation:

1. **Live pages missing** (`live_pages`). A page answered with 304 does not
   contribute its links, so what only it links counts as missing in a refresh.
2. **Removed paths kept** (`removed_paths`). A refresh that walks all files
   gives every row the new generation before it sweeps old generations.

Divergences met while modelling, which the models contain and no run asserts:

- *Statistics drift.* `PruneWebPages`, `DeleteRepoFilesNotSeen` and
  `DeleteRepoFileByPath` (`store/web.go:377`) delete documents without
  `retractDocumentsSemanticStats`; `docs/DATA_MODEL.md:117,129` promises counters
  maintained on delete. `rows` and its proofs say how bad it can get: counters are
  only ever too high, keep their order, and never recover.
- *Streams that do not end.* A `Subscribe` after `Finish` creates a runtime
  entry nobody removes, and so does the trim of a running operation;
  `httpapi/jobs.go:43` says that a stream ends with its job.
- *A file given up is swept.* A file that is unreadable, or whose row fails to be written, keeps
  its old generation, and the sweep of the ingest (`gitrepo/ingest.go:231`)
  deletes its document. If the job then stops before the commit is updated, the next
  refresh diffs from the old commit and need not name the file: it stays missing until a
  full ingest. `RootMirrorsCommit` therefore takes such a sweep as a distrusted one.
- *A failed refresh changes the root.* Files are stored one by one, before the
  refresh is known to succeed; `docs/INGEST.md:49` says otherwise.
- *Diffs that are misread.* `DiffNameStatus` (`gitrepo/snapshot.go:299`) splits the lines of
  `git diff --name-status` at spaces, without `-z`. A path with spaces, or one that git quotes, is
  lost: of an addition or change the last word is taken and of a deletion the first, so that the file
  is not indexed, its document stays, or a live file of that name loses its document. A rename is
  read as its first two words. Output is cut at 4 MiB (`gitrepo/exec.go:83`): the write that
  crosses the limit reports fewer bytes than it was given, which makes the command fail and
  the refresh walk everything; but when a write ends exactly there, the rest is dropped without
  an error. In each case the commit advances, so that later diffs do not name the files. A full ingest repairs it
  (`IngestRepairs`); `RootMirrorsCommit` excludes diffs that were misread.
- *Settings race.* `UpdateSettings` commits and assigns in two critical sections
  (`usage/store.go:325`); two saves may do so in opposite orders, and memory then differs from
  the table until the next save that crosses none, or the next start. `SettingsArePersisted` says that nothing
  else makes them differ.
- *Moved documents.* A document that moves to a root outside the request between the search
  and a later read enters the package with its new text and the name of its new root
  (`implctx/package_select.go:78`, `store/symbols.go:447`); the row and the chunks of
  `GetDocumentByURI` (`store/store.go:428`) may also be of different revisions, so that the new text
  appears under the old root and authority. `EvidenceInScope` bounds this to documents that
  a searched root held during the request.
- *What cannot be ingested keeps its document.* An admitted HTML file whose Markdown is empty is
  skipped without an error (`ingest/project.go:276`); a file that cannot be read or converted is an
  entry of `Errors`. In both cases the document of an earlier content stays searchable, and under
  `auto` its trust is that of the package as it is now. `CalmRunSettles` claims the content of files
  that can be ingested only.
- *Two PDFs of one base name* share a URI, and replace each other.
- *PDF retries.* After a stop between the two transactions (`pdf/ingest.go:197`)
  every retry is "unchanged" and the row stays as it was; the hash is taken
  before the pages are read (`pdf/ingest.go:76`); another page range of the same
  file is "unchanged", and with `force` replaces `pdf_pages` only.
- *PDF sections.* The section before the first bookmark may cite pages beyond the
  selected range (`pdf/extract.go:142`), and the pages after a last bookmark
  without an end are in no section.
- *Root filter of the analytics.* `request_id` is ambiguous in the statements
  that join (`usage/query.go:255`), so with a root the efficiency and knowledge
  reports and the export fail; `docs/ANALYTICS_USERS_GUIDE.md:60` says that filters
  apply to every chart and table.
- *Rates.* The coverage counts of the summary (`usage/query.go:278`) include rows
  that are not grounded, while the rates divide by the grounded, and may exceed 1.
- *Torn reports.* The sections of an export, and the count and page of the request
  list, may describe different states; `reports` bounds how different.
- *Trim that does not progress.* A summary cut to 60 runes and an ellipsis still has more
  than 60 bytes (`implctx/budget.go:83`), so that case is taken in all the rounds
  that are left and the budget is missed; the comments at `implctx/budget.go:31,91`
  describe otherwise.
- *Groups.* `LookupKnowledgeGroup` matches a key against id and name with `LIMIT 1` and no
  order (`store/rootgroups.go:119`): with an id that is another group's name, the group whose
  policies are judged need not be the one that is expanded. A root without a group beside the roots of one group passes
  `ValidateRootScope`; a group edited between two reads of one request may mix
  corpora; a file of groups is applied up to the first refusal; policies that
  are all false become the defaults.
- *Trust of another content.* The package is read after the files are stored, so a
  document may have the trust of a front matter that its stored content does not have:
  the file was edited in between, or is refused. `ingest_markdown`
  of the same directory writes the inferred authority over the derived one.
- *Documents of removed files.* A project ingest deletes none; they keep content
  and trust, while the synthetic document no longer lists them.
- *Trust survives `normal`.* Under `normal` the trust is not applied, but not taken
  back either (`ingest/project.go:225`), and a file with an equal hash is skipped: the
  documents keep what an `auto` run gave them. `docs/INGEST.md:74` says "no trust
  boosts".
- *`exclude` admits junk.* Its patterns take the place of the filter that skips
  ignored directories and binaries (`ingest/project.go:127`), which
  `docs/INGEST.md:18` says are skipped.
- *A refresh ignores `exclude`.* It passes a filter of its own
  (`gitrepo/refresh.go:126`), so the patterns of the handling are never added and the
  package is stored, which `docs/INGEST.md:75` excludes.
- *Ranking cache.* The synthetic document is cached by root alone
  (`librarydocs/ranking.go:94`), although it is kept per scheme and root.
- *Handlings.* A handling given to a Git ingest is not stored for its refreshes, no
  caller of a project ingest passes one, and a manifest that does not parse means
  `auto`.
- *Lost batches.* A batch that fails is logged but not counted among the dropped
  events of the status page.

## 6. What is not modelled

SQLite, git and HTTP are the environment. Text processing (HTML cleaning,
chunking, symbol extraction, Markdown, front matter and inventory tables, the PDF libraries) is
a function from content to chunks, pages or symbols, given as a constant: over
small sets of model values nothing of it would be left to check. FTS5 ranking is
SQLite's. Readers without state (inventory, health, previews, listing handlers,
the Vomit export), commands and the UI compute and format what they read. Schema
set-up is a sequence of statements in one transaction behind a version gate.
Redirects and canonical URLs, robots and profiles are folded into the set of
URLs. The crawl and the Git jobs are modelled one at a time per source, although
the code has no lock against a second one.

## 7. Plan

1. A second crawler and a second Git job on one source, and the tracker in
   front of them (cancel reaches the job's context).
2. A second abstract specification, a `Mirror` of a commit, implemented by
   `RepoSync` between trusted jobs.
3. `KnowledgeGroups` in front of `ContextPackage`, with edits of groups and of
   documents in one run.
4. The additive schema migrator; the ranking of hits by authority, whose cache is
   filled per root.
