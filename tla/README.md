# Verification of agentic-cataloger

TLA+ modules, TLC configurations and TLAPS proofs for agentic-cataloger: a
Python backend (`backend/`) that imports scraped product files of Swiss
retailers into Postgres and keeps a taxonomy of categories over the products,
and the retired TypeScript system it replaces (`legacy/`).

Paths below are relative to the repository; `backend/.../x.py` stands for
`backend/src/agentic_cataloger/x.py`.

## 1. Inventory

The new backend is one command line program. Every invocation is a process of
its own: it opens one Postgres connection, runs one command, commits or rolls
back, and exits. Processes share only the database and the data directory, and
nothing but Postgres stands between two of them: the code takes no lock. The
hard behaviour is therefore that of concurrent READ COMMITTED transactions, of
processes killed in the middle, and of files that change between runs.

| component | state | operations | interacts with | what makes it correct |
|---|---|---|---|---|
| Taxonomy tree helpers (`taxonomy/tree.py`) | none | `parent_map`, `children_map`, `is_leaf`, `would_create_cycle` | called by the commands with the rows they read | the cycle check is exact over trees, ends and fails closed over corrupt rows |
| Taxonomy commands (`taxonomy/commands.py`, `platform/persistence/taxonomy_repo.py`, `platform/taxonomy/runner.py`, migration 003) | `taxonomy_categories`, `taxonomy_memberships` | `create_category`, `reparent_category`, `assign_product_to_leaf`; reads `search_categories`, `list_category_children`, `format_taxonomy_tree` | product rows of the catalog; foreign keys; the one-root index | one root, no cycle, products on leaves only, `show` complete |
| Catalog import (`catalog/commands.py`, `platform/persistence/catalog_repo.py`, migration 002) | `catalog_snapshots`, `catalog_products` | `import_snapshot` | called by the ingest runner in one transaction per retailer | whole imports, stable ids, one identity policy per namespace, facts only from rows that were unambiguous |
| Ingest runner and CSV source (`platform/ingest/runner.py`, `catalog_source.py`, `identity.py`, `filter.py`) | none of its own; reads the data directory | `run_ingest`: choose the latest file per retailer, parse, import, commit, next retailer | catalog import; other ingests through row locks and unique keys | success means every retailer was imported, runs end, facts never go back |
| Review queue (`review/`, `review_repo.py`, migration 005) | `review_deferred_items` | `defer_item`, `list_open` | product and snapshot ids | an item outlives reruns of its producer |
| Command line (`cli.py`, `platform/roles/`) | telemetry adapter, signal handlers, exit code | dispatch, shutdown; the worker's loop, the API server | everything above; SIGTERM, SIGINT and SIGKILL at any point | telemetry is shut down on every path; the exit code says what happened; a signal ends the process |
| Migrate role (`platform/roles/migrate.py`) | the database's schemas, tables, privileges and versions | waits, alembic in a subprocess, vendor installations, grants, each autocommitted | Postgres; alembic, pgqueuer, the LangGraph checkpointer (external) | exit 0 means a whole installation; safe to run again after a stop anywhere |
| Telemetry adapters (`platform/telemetry/`) | process singleton, current span | set up, shut down; start and end spans | Phoenix (external) | shut down once, whatever the command came to |
| OpenRouter smoke call, taxonomy LLM tools | none | one call; text formatting | LLM (external) | – |
| Legacy discovery and LLM client (`legacy/backend/src/agents`, `llm`, `cli`) | the execution log; per process the call, the answer so far, the category being stored | `discoverCategoriesFromFilter`: ask, log, store, link | LLM provider (external), the repositories, other discoveries through the tables | what is stored was logged; every listed product ends in the last category that lists it; a discovery ends |
| Legacy repositories (`legacy/backend/src/database/repositories`) | `categories`, `products.category_id`, `category_schemas`, `global_attributes`, `agent_executions` | single statements; `assignProducts` a transaction of two UPDATEs; `saveSchema` and `registerAttribute` a read and then a write | Postgres, one pool | counts, versions and uses right under overlap |
| Legacy page and controllers (`LandingPage.tsx`, `legacy/backend/src/categories`) | selected category, query cache | select, back, two GETs | HTTP, react-query (external) | products shown under the category they belong to, no 404, no blank page |
| Legacy importer (`legacy/data-importer`) | `products`; per process the files left, the batch, the counts | scan, parse, transform, batch upsert | Postgres, the data directory, discoveries that assign categories | whole batches; a clean report is true; runs end |
| Build, containers, CI | – | – | – | – |

How a command runs: `cli.py` parses arguments and calls a runner; the runner
opens `connect_app` (autocommit off), builds repositories over the connection,
calls the command and commits. An exception leaves the `with` block, which
rolls back. A command is a sequence of SELECTs, decisions in Python on what
each returned, and its writes. The legacy programs are processes of their own
too, but commit every statement by itself, except for two transactions
(`assignProducts`, `upsertBatch`). The hazards this brings, each with its line and
the properties that cover it, are in `PROJECT.json` under `hazards`.

## 2. Modules

| module | models | kind |
|---|---|---|
| `Tables` | a table as a function, `Put` as the effect of a written row | helper |
| `TaxonomyTree` | `taxonomy/tree.py` as set definitions over a parent map | pure |
| `CycleWalk` | the `while` loop of `would_create_cycle` | state machine |
| `Taxonomy` | the commands, each one atomic | abstract specification |
| `TaxonomyDb` | the commands statement by statement, several sessions | detailed |
| `CatalogFiles` | what rows of a file become observations, are unique, match a filter | pure |
| `Catalog` | `import_snapshot` as one atomic step | abstract specification |
| `CatalogIngest` | `run_ingest` by several processes, statement by statement | detailed |
| `LlmClient` | `generateArray` with attempts, timers, retries, salvage; the provider external | detailed |
| `LegacyTables` | the tables the legacy parts share | helper |
| `CategoryDiscovery` | the discovery agent and the repository statements it sends | detailed |
| `SchemaRegistry` | `saveSchema`, `registerAttribute` by several clients | detailed |
| `CategoryBrowser` | landing page, query cache, the two GET handlers | detailed |
| `LegacyBackend` | the four above over one database | composition |
| `ProductRows` | unit and price parsing, normalization, `transform` | pure |
| `ProductStore` | the product table changed by whole batches and by assigned categories | abstract specification |
| `ProductImport` | the importer: files, batches, transactions, failures | detailed |
| `Installation` | the database as the migrate role builds it, and what a statement does to it | helper |
| `RoleProcess` | `cli.main`: handlers, telemetry, one command, shutdown, signals | detailed |
| `MigrateRole` | `run_migrate` statement by statement, in a `RoleProcess` | composition |
| `MCTaxonomyDb`, `MCFiles`, `MCCatalogIngest`, `MCLegacyBackend`, `MCProductImport`, `MCMigrateRole` | constants for TLC | instances |
| `TaxonomyTreeProofs`, `CycleWalkProofs`, `TaxonomyProofs`, `TaxonomyDbProofs`, `CatalogIngestProofs`, `LegacyBackendProofs`, `ProductImportProofs`, `MigrateRoleProofs` | theorems | proofs |

`TaxonomyDb` composes `Taxonomy` (`Taxon == INSTANCE Taxonomy`, variables of
the same names); `CatalogIngest` composes `Catalog` (`Cat == INSTANCE Catalog
WITH Time <- 1..MaxFiles`). The ids the taxonomy refers to are products of the
catalog; in `Taxonomy` the catalog is the single action `Ingest`, and that ids
stay valid is `IdsAreStable` of `Catalog`.

### Taxonomy

*State.* `parent` maps each row of `taxonomy_categories` to its `parent_id`
(`NoParent` for NULL), `leafOf` each row of `taxonomy_memberships` to its
category, `products` is the set of product ids. Names, slugs and timestamps
decide nothing and are left out. In `TaxonomyDb`, `txn[s]` is the command
session `s` runs: the statement it sends next and the row it is going to write.

*Actions.* `BeginCreate`, `BeginReparent` and `BeginAssign` are the operator
starting a command. `GetRoot`, `GetCategory`, `GetParent`, `CheckCycle`,
`CountMembers`, `ProductExists`, `GetLeaf`, `CheckLeaf`, `GetMembership` are
the SELECTs in the order of the code, each with the decision made on its
result: go on, or raise, which rolls back. A SELECT sees the committed rows at
its own moment (READ COMMITTED). `Write` is the single INSERT, UPDATE or
upsert: it waits while another transaction holds the same row, or another new
root, uncommitted (`Conflict`), and fails on a unique violation. `Commit`
makes the row visible. `Crash` is a killed process or a lost connection.

*Disciplines.* Which commands may be in flight together is the constant
`Overlap`, a symmetric relation on command names. The repository says that one
process touches the database at a time (`docs/plans/roadmap.md`), and its
architecture document promises an advisory lock for reparent that the code
does not take (section 6). The properties are stated under the weakest
discipline each one needs: `ReparentsAlone` (no two reparents), `AssignsApart`
(no assign while a create or a reparent runs), or none.

*Tree helpers without recursion.* `WouldCreateCycle` says that the proposed
parent has no well-founded, parent-closed set of ancestors that leaves the
category out; `Shown`, what `format_taxonomy_tree` prints, is the least set
with the roots and closed under children. These are the forms the provers can
use for trees of every size. `CycleWalk` shows that the loop computes the
first.

### Catalog

*State.* `snapshots` maps the content checksum to the rest of the snapshot row
(namespace, observation time), `products` the source identity to `row` (the
product id, named by the file that first brought it), `snap`
(`last_snapshot_id`, which stands for the imported facts of that file) and the
identity policy. `files[r]` holds the scrapes under retailer `r`'s folder,
oldest first. `run[s]` is one process: retailers still to visit, file picked,
rows still to upsert, imports committed so far.

*Actions.* `Begin` starts `run_ingest`; `Skip` and `PickLatest` are the loop
over `iter_retailer_dirs` with `find_latest_csv` and `parse_csv_snapshot`;
`GetPolicy`, `GetSnapshot`, `InsertSnapshot`, `UpsertObservation` (one per row,
in file order) and `Commit` are the statements of `import_snapshot`; `Finish`
is the check for missing retailers. `Waits` is what a statement waits for,
`AbortVictim` Postgres resolving a cycle of waits, `Crash` a kill.
`MakeFolder` and `Publish` are the scraper, outside the program.

*Data.* A file is a sequence of rows; a row is the source identity its URL
yields, or `Untrusted` for what makes `parse_csv_snapshot` defer a row.
`Malformed` files are those on which it raises. Whether a keyword or brand
filter matches is a constant relation. The case conversion and decimal parsing
behind these are not modelled.

`Publish` names a scrape after a later time than those there are, gives it new
content and no other retailer's products (`Genuine`). `AnyFile = TRUE` lifts
the last two; the theorems hold either way.

### Processes and the migrate role

*State.* `proc[p]` is a process: how far `main` is (`at`: before the handlers,
in `configure_telemetry`, in the command, in the `finally`), the signal
disposition, the telemetry adapter, the exit code, the step of the command, and
the alembic subprocess. `hit` (the phases a signal came in), `result` and `why`
are history. `db` has alembic's revision, the vendor tables and the
checkpointer's recorded migrations, which tables the application role may use,
and whose future tables it may use (default privileges).

*Actions.* `InstallHandlers`, `Configure`, `Dispatch`, `Flush` and `Exit` are
`main`; `RunOnce` any command that is neither a server nor migrate, as the exit
codes it can have. `ReplaceHandlers` is the worker, or uvicorn, putting in a
handler that sets a flag; `StopWorker` and `StopApi` its loop seeing it (uvicorn
then puts the early handlers back and raises the signal again). `Signal` is
what a handler does: `SystemExit(0)` from wherever the process is, through the
`finally` if the command is running (which kills the alembic child, as
`subprocess.run` does), out of it if it is already there. `Wait`, `StartAlembic`
to `AlembicReturns`, `HasTable`, `Install`, `Upgrade`, the four `Graph` steps,
`Grant` and `Verify` are `run_migrate` in its order; `EndAlembic` is the
subprocess on its own, which a SIGKILL of the parent may leave behind
(`orphans`). `LoseConnection` and `Kill` come between any two statements.

*What is external.* pgqueuer's `install` is one query of many CREATEs, which
Postgres runs as one transaction; its `upgrade` and the checkpointer's `setup`
run one statement after another, each IF NOT EXISTS, and `setup` records every
migration after it. Several statements of a vendor's release are one table in
the model. The 14 statements of the grants are four steps: those before the
default privileges of a vendor, those privileges, and the same for the other;
REVOKE CREATE changes nothing that was granted. An unset URL, a missing
database and a wait that gives up are one outcome (`notReady`).

### Legacy backend

*State.* `count` maps the names in `categories` to `product_count`,
`categoryOf` each product to its `category_id`; `executions` is
`agent_executions` in the order of `created_at`, each with its status, its
output and its `category_ids`. `call[p]` is the LLM call of discovery `p`:
where `generateArray` is, the attempt, the elements collected. `run[p]` is the
next statement of the discovery, the element of the answer it is at, the
product rows it has still to lock, and the count it has taken. `schemas`,
`usage` and `job[c]` are the registry; `selected` and `cache` the page.
`away` says why the page may not send: it is hidden, or the network is gone.
Two variables are history: `registered`, the calls of `registerAttribute` that
returned, and `unanswered`, those that lost the connection while they wrote.

*The call.* `Open` is the provider lookup (no key: throw) and the first
attempt, `Receive` and `StreamEnds` the `for await` loop, `Resolve` the awaits
after it. `Fails` is any error of the provider, `TimesOut` the timer of
`withTimeout`; both go through `Caught`: salvage what was collected, back off
and retry a transient error while attempts remain, or throw. The timer's own
message is not among the texts the code retries (section 6). No timer runs in
`AwaitsProvider`: waiting for the whole object, or for the usage of a failed
stream.

*Storing.* `LogExecution` is the row that says success or partial;
`LogError` the one of the catch block, also when logging failed (`LogFails`). Then, per
element: `FindCategory`, `CreateCategory`, and `assignProducts` as `TakeRow`
(the UPDATE of products, one row lock at a time), `CountMembers` (the COUNT
in the second UPDATE, which sees committed rows and its own) and
`CommitAssign`. `LatestExecution` and `Link` write `category_ids`.
`Deadlock` is Postgres ending a cycle of waits, `Abort` a failed statement or
a kill. A category's row lock is not a step: the COUNT is taken with the
statement's snapshot, and a wait for the lock ends with the commit it waits
for.

*Registry.* `saveSchema` and `registerAttribute` as a read (`ReadLatest`,
`FindAttribute`) and a write that a unique or foreign key may refuse. A write is
committed on its own, so it may be done and its answer lost (`WriteEnds`); or the
connection is lost before it (`LoseJob`). The caller, who sees the same error
either way, is in `unanswered` for both.

*Page.* `Fetched` is the query library starting a fetch, `Failed` a failed
one (sent again or given up), `Cancel` a fetch of a key nothing shows being
dropped, `Refocus` the refetch when the window gets the focus. A fetch has the
statuses of react-query 5: idle, in flight (`Fetching`), or paused, which it is
instead of sent while the browser is offline, and instead of sent again while it
is offline or the page hidden (`GoAway`), until it is neither (`ComeBack`).
`isLoading` is false of a paused one. `GetCategory`
and `GetProducts` are the two statements of one request. `Parts` is what
either view renders of its query.

*Scenarios.* `LegacyBackend` composes the parts over shared tables; a constant
set of scenarios says which of them run, what the provider may answer, and
whether discoveries run one at a time (`serial`). The theorems hold for any
set of scenarios. Three properties are stated for serial scenarios only:
overlapping discoveries may link one's categories to the other's execution,
count rows the other has moved, and move each other's products. The operator
starts discoveries by hand (`legacy/backend/src/cli`), so one at a time is
how the program is used; nothing in it enforces that.

### Legacy importer

*State.* `products` maps (name, supermarket, url) to the category and the
facts of a row. `imp[i]` is one importer: the files found and left, the one
being read, the span `from`..`pos` of the rows in its batch, the rows of the
batch still to upsert with the counts of `upsertBatch`, whether Postgres has
aborted the transaction, and the totals of the report.

*Actions.* `Start` is `main` with `scanDirectory`; `NextFile` takes the files
in any order, as `readdir` may; `ReadRow` skips an incomplete row and counts it
as failed; `BeginBatch` when the batch is full or the last of its file;
`UpsertRow` one statement, waiting for a key another transaction has written;
`FailRow` a refused row, which aborts the transaction, and every row after it;
`CommitBatch` a COMMIT, which after an abort is a rollback without an error;
`RollBack` the outer catch block; `LoseConnection` a throwing `connect` or
`ROLLBACK`, with a COMMIT that was sent done or not; `ParseFails` a file
the CSV parser gives up (`Broken`), which costs that file only; `Kill` a process
that ends in the middle: killed, or by the uncaught error of a file that cannot
be opened or read, since `pipe` (`csv-parser.ts:42`) does not pass a stream's
error on. `Assign` is a discovery.

*Data.* A label is what its text means (form, number of packs, size in
thousandths, unit) with the number each pattern finds before the unit: `decimal`
by `\d+(?:[.,]\d+)?`, and for counts `whole` by `\d+`, which of "1.5 Stk" is 5. A
price is in cents; `ExtractUnit`, `Normalize` and
`NormalizedPrice` follow the order of the patterns, the conversion table and
`DECIMAL(10, 2)`, with Infinity (refused) and NaN (kept).

`ProductImport` implements `ProductStore` (`Store == INSTANCE ProductStore`,
the table under its own name): whatever an importer does between two commits,
the table changes by whole batches.

## 3. What the runs check

| run | question | instance | distinct states |
|---|---|---|---|
| `CycleWalk` | does the loop end, with the right answer, on every parent map? | 4 categories: all 5^4 total maps and all partial ones, all pairs | 63 072 |
| `MCTaxonomyDbRaceFree` | do the statement-by-statement commands implement the atomic ones under the two disciplines? | 4 categories, 2 products, 2 sessions | 26 570 (symmetry) |
| `MCTaxonomyDbLive` | what survives overlapping creates, reparents and an assign, does every command end? | 3 categories, 1 product, 2 sessions | 144 779 |
| `MCTaxonomyDbTwoReparents` | finding: a cycle | 3 categories, 2 sessions | violation |
| `MCTaxonomyDbAssignAndCreate` | finding: a product above the leaves | 3 categories, 1 product, 2 sessions | violation |
| `MCCatalogIngestOverlap` | are overlapping, killed and deadlocked ingests a sequence of whole imports, and do they end? | 2 retailers, 3 files, 2 sessions | 32 200 |
| `MCCatalogIngestSequential` | what do ingests one after the other promise? | 2 retailers, 5 files, 2 policies, 2 filters, 2 sessions | 185 525 (symmetry) |
| `MCCatalogIngestSameBytes` | finding: imported and reported missing | 2 retailers, 2 files | violation |
| `MCLegacyBackend` | is what is stored and shown logged, are counts, links, versions and uses right, is the page never blank, do discoveries end? | 2 products, 2 categories, answers of up to 2 elements, 2 attempts; 6 scenarios | 333 092 |
| `MCProductImport` | whole batches, true reports, ordered prices, do imports end? | 7 files, batches of 2, 2 importers; 5 scenarios | 30 841 |
| `MCProductImportCounts` | finding: rows counted that were rolled back | as above | violation |
| `MCMigrateRole` | does exit 0 of a migrate mean an installation, can it be run again after a stop anywhere, is telemetry shut down? | 3 runs on a new database, 2 on an older one, 2 overlapping on either, the other commands; 2 revisions, 2 tables per vendor, 2 signals each; 5 scenarios | 571 402 |

*Why the bounds are enough for what is asked.* Four categories are a root, a
chain of two below it and a sibling: every shape on which a reparent can close
a cycle, and the corrupt maps `CycleWalk` starts from include two disjoint
cycles. Two sessions are what every race here takes. Two products are one
that moves and one that stays. For the catalog, `f1` and `f2` meet in two
products in opposite order, which is what a deadlock needs; `f2` names a
product twice, which is what the partition is for; `f3` belongs to the other
retailer; `f0` has no rows and may be published by both; `bad` does not
parse. `MaxFiles = 2` scrapes per retailer give an older and a newer one.
For the legacy backend the two answers share a
product, which therefore moves, and two discoveries then lock the same rows in
opposite order; two clients are what a race on a version takes. Its scenarios
are: two discoveries that overlap; two that do not; one with clients that save
schemas; clients that register attributes, which touches no other table; one with
the page over both categories; and one with the page over one category, hidden and
offline at any moment. The scenarios
of the importer are: two files with the same products in opposite orders and
two importers (deadlock); a file of two batches that holds a product twice,
while categories are assigned; a row that is refused, a file cut off with a
row that is skipped, a file of no known supermarket; the refused row with
two importers; and counts, one of them a fraction. Two revisions and two tables per vendor are an older release and
a step from it; three migrates are two that stop at different statements and
one that finds what both left. The second signal is the one that meets the
shutdown the first began. Symmetry is used in runs of safety properties only. The safety properties
under theorem do not depend on any of these bounds (section 5).

*Properties that take more than one step, or more than one actor, to break.*

- `TreeIsAcyclic`, `ShowIsComplete`, `OneRoot`, `RootIsPermanent`: any sequence of
  creates and reparents by several sessions. `RootIsPermanent` is not a guard of
  the code: nothing in `reparent_category` mentions the root, it is refused
  because every other category is below it.
- `MembersOnLeaves`: the leaf check and the two demotion checks against each
  other.
- `Implements` (both detailed modules): each commit is exactly one atomic
  command, however many statements of others came in between.
- `OkMeansImported`: success, which the runner concludes from namespaces of
  snapshot rows, does mean that each retailer asked for was imported.
- `OnePolicy`: one row (`LIMIT 1`) stands for the namespace.
- `NeverOlder`: facts never go back to an older scrape. It holds for ingests one
  at a time whose scrapes are new; two overlapping ingests, or a file whose
  bytes recur and so reuse an older snapshot row, can break it.
- `CommandsEnd`, `RunsEnd`, `ImportsEnd`, `RunsEndOrAwaitProvider`: nobody waits for
  ever, except a discovery for the provider where the code has no timer.
- `EverythingStoredIsLogged`: log and tables are written by separate statements
  of processes that overlap, fail and are killed.
- `ShownIsLogged`: from the answer of the model to the cards of the page, across
  the log, the tables, two statements of a request and a cache with late
  answers.
- `CountNeverLow`, `LinksMatchOutput`, `ResultIsStored`: one discovery at a time,
  with failures anywhere: the stored count may be stale, because a product
  left, but never low; links are to the run's own execution; the last category
  that lists a product has it.
- `UsageIsCalls`, `VersionsCountUp`: a read and a later write, made right by
  `usage_count + 1` and by a unique key, whichever calls overlap. `usage_count` is
  at least the calls that returned, and above them by no more than the calls
  whose write, or its answer, was lost with the connection.
- `NeverBlank`: the page through any sequence of clicks, answers, failures,
  dropped and paused requests: once it is seen and online something is there.
  While it is not, it may be blank (section 6).
- `Implements` of `ProductImport`: kills, deadlocks and lost connections leave
  whole batches.
- `CleanReportIsTrue`: the process exits 0 whatever failed, so only a report
  without failures, over all files found, says that everything was imported.
- `CheaperIsNotDearer`: of two stored products whose labels the patterns read in
  full, the one that costs less for its content has not the higher
  `normalized_price`, rounding included.

- `OkMeansInstalled`: `_verify_bootstrap_state` looks at one row and two schema
  names; that tables, recorded migrations and privileges are whole follows only
  from the order of the steps, over any runs stopped before, an older release,
  orphaned alembic children and overlapping runs.
- `RerunNeverConflicts`: what `has_table` and the highest recorded migration
  say of a database left at any statement never makes the next run fail.
- `SpansAreFlushed`: every path through `main`, three handlers and up to two
  signals. It excludes signals in `configure_telemetry`, which runs before the
  `try`, and in the shutdown itself: there spans are lost.

## 4. Fairness

`FairSpec` of `TaxonomyDb`, `CatalogIngest`, `LegacyBackend` and `ProductImport`
state fairness per process.

- Weak fairness of the reads and of the commit: a process that runs gets an
  answer to a statement it has sent, and nothing but that process disables it.
- Strong fairness of the writes: a write can be enabled, disabled when another
  session takes the row, and enabled again. Postgres queues waiters of a row,
  so no waiter is passed over for ever.
- Weak fairness of `AbortVictim`: the deadlock detector runs after
  `deadlock_timeout`.

The two legacy programs add: weak fairness of timers (`AskTimers`: a timer that
is set fires, and after a backoff the next attempt is made), strong fairness of
the row-locking statements (`TakeRow`, `UpsertRow`), weak fairness of everything
else the process does on its own. Of the LLM provider nothing is assumed, so it
may stay silent for ever: that is why `RunsEndOrAwaitProvider` excludes the two
waits without a timer.

Nothing is assumed of operators, of the scraper or of crashes: commands need
not start, files need not appear, and a process need not be killed to end.
`CycleWalk` assumes that a loop that can take a step takes it.

## 5. What is proved

TLAPS checks the theorems for every value of the constants; the assumptions are
the named ASSUMEs of the modules and the discipline each theorem names.

- *Tree lemmas* (`TaxonomyTreeProofs`). `SafeEdgeKeepsAcyclic`: an edge the
  check accepts keeps an acyclic map acyclic. `RefusedEdgeClosesCycle`: what it
  refuses would close a cycle. The argument takes a set without an exit in the
  new map and intersects it with the well-founded ancestors of the new parent:
  the set definitions make this first-order, with no induction over paths.
- *The loop* (`CycleWalkProofs`). `WalkAnswers` and `WalkDecidesTheWrite`. The
  inductive invariant, `WalkInv`: `seen` leaves the category out, the parent of
  each of its members is in `seen` or is `current`, a circle inside it could only
  run through `current`, and the walk stays in every parent-closed set it starts
  in.
- *The atomic taxonomy* (`TaxonomyProofs`): acyclicity, leaves, the single and
  permanent root, completeness of `show`.
- *The taxonomy over Postgres* (`TaxonomyDbProofs`). The invariant is a
  conjunction of named parts, each carrying what a transaction already knows:
  `Typed` with `Knows` (a row found by an earlier SELECT is still there, since
  nothing is deleted), `RootInv`, `OverlapInv` (what is in flight is allowed by
  `Overlap`), `CycleInv` (an edge past `CheckCycle` is still safe: only another
  reparent could change that, and creates add leaves), `LeafInv` (what passed
  `CountMembers` or `CheckLeaf` still holds). Without those parts
  the properties are not inductive: acyclicity of the committed rows says nothing
  about an edge that was checked and waits for its commit. `RootInv` rests on
  `WritersExclude`, that Postgres lets one transaction at a time hold a row or a
  new root. `DbTyped`, `DbOneRoot` and `DbRootIsPermanent` need no discipline;
  `DbAcyclic` and `DbShowIsComplete` assume `ReparentsAlone`, `DbMembersOnLeaves`
  assumes `AssignsApart`, `DbImplements` both.
- *The catalog and the ingest* (`CatalogIngestProofs`), for any number of
  processes, retailers, files, filters and policies. The atomic catalog: types,
  stable ids and snapshot rows, one policy, observed facts, whole bulk imports
  (`Catalog...`). The ingest, statement by statement (`Ingest...`): the invariant
  `Inv` is `TypeOK`, `RowsAreHeld` (what Postgres promises: two open transactions
  share no row) and `Knows` (an import past its SELECTs still
  has the snapshot row it found, or still holds the content it registers). From it
  every commit is an `Imported` step of the catalog up to the policy check, which
  gives `IngestTyped` (every product's snapshot row is there),
  `IngestIdsAreStable`, `IngestFactsWereObserved` and `IngestBulkIsWhole` without any condition. The
  others each need one, and the part of the invariant that uses it:
  - `IngestOnePolicy` and `IngestImplements` assume `OneVersion` (versions of the
    program do not ingest at the same time). `PolicyInv`: the policy a run has
    checked is still the one of every product of its retailer. Two versions over
    an empty namespace break it, since the check finds nothing to compare.
  - `IngestOkMeansImported` assumes `~ Overlap`, which keeps at most one
    run in progress (`SoleRun`).
    `AccountInv`: each retailer that was asked for is still to come, or in the
    results, or has no snapshot; a result's snapshot is registered and its rows
    are in the catalog. The final check of `run_ingest` looks at the namespaces
    of the snapshots only; `AccountInv` is what makes that enough.
  - `IngestNeverOlder` assumes no overlap, and files that are genuine scrapes
    (`~ AnyFile`: content that is new in its folder, products of no other retailer). `AgeInv`: every
    snapshot is a file at its own place in its folder, and the file a run has
    picked is at least as new as every snapshot of its retailer.

- *The legacy backend* (`LegacyBackendProofs`), for any number of processes,
  clients, products, names, answers and scenarios. `BackendInv` is a conjunction
  of one invariant per part. `DiscoveryInv`: the elements in `call` are typed and
  within the bound; a run past its log is at an element of an answer that some
  logged execution holds (`IsLogged`), and past `FindCategory` its category is
  there (`RunOK`); that is what makes `StoredIsLogged` inductive, since the
  tables alone say nothing of what a running process will store. `RegistryInv`
  and `VersionsInv`: versions of a category without given numbers are 1..n and
  what a client has read is at most the latest (`ReadOK`), so that an insert
  that the unique key lets through is the next number. `BrowserInv`: an entry
  of the cache is about a category that is there, and shows logged products.
  The serial properties rest on `SerialOK` (nobody else changed what this run
  counted, `CountedOK`, or logged after it, `NewestOK`) and on `Placed` (each
  product of the elements stored so far is in the last of them that lists it).
  Only `RunsEndOrAwaitProvider` is not proved.
- *The importer* (`ProductImportProofs`). `TypeCorrect` and `ImportRefinesStore`:
  the invariant says where a run is in its file: the rows left to write are
  complete rows of the span it has read, and a batch being upserted is a batch of
  its file in the sense of the abstract specification (`IsBatch`: full, or the
  last). The rows left to write are none between two files: `Between` resets the
  batch, and without that the next file would begin with the rows of the one
  before. `SpecCleanReportIsTrue` adds `ReportInv`. A run's counts say nothing
  once a row has failed or a file was left early, and the second shows only as
  `processed` falling behind the files that are no longer to do (`Behind`);
  so the invariant is: `processed` is never more than those files, and *while*
  it is equal and nothing failed (`Clean`), the counts are the number of rows
  before the batch (`Past`), these rows are in the table, and no row was skipped.
  Within a transaction: an aborted one has counted a failure, so that the
  COMMIT which rolls back cannot look clean. `SpecCheaperIsNotDearer` is
  arithmetic, for any prices, quantities and units: rounding to the nearest keeps the
  order of two quotients (`RoundingMonotone`), and a label whose number
  the patterns read in full gives, through the conversion of its unit, the quantity
  it says (`PlainRead`). It uses `RowsAssumption`: what the patterns match are
  numbers. Facts enter the table through `Transform` only, so the theorem is about
  every stored row.
- *The migrate role* (`MigrateRoleProofs`), for any number of processes, signals,
  revisions and vendor tables, and any of the scenarios. The invariant,
  `MigrateInv`, has four parts. `DbOK`: migrations are recorded in order and
  after their table. `Knows`: at each step of `run_migrate`, what the steps
  before it made is there. Nothing is ever dropped (`Grows`), so what a run knows
  survives the steps, kills and orphans of all others (`KeepsKnowing`), and exit
  0 without a signal means `Installed` whatever overlapped it. `EndOK`: what the
  exit code and the adapter say of a process that has ended. `AloneOK`, with one
  process at a time and no orphaned child: what a run has read (the revision, the
  missing queue table, the next migration) is still so when it acts on it; this
  is what `SpecRerunNeverConflicts` needs.

*Model-checked only.* Liveness (`Terminates`, `CommandsEnd`, `RunsEnd`,
`RunsEndOrAwaitProvider`, `ImportsEnd`): liveness under fairness and ENABLED are
out of the prover's reach. Every other property of a passing run is a theorem.
That the set definitions agree with recursive ones (a path, the walk of
`format_taxonomy_tree`) for every input would take induction over data, which
the provers cannot instantiate; `CycleWalkProofs` proves the part that the
commands depend on, as a state machine.

*A form the modules avoid.* The SMT encoding of tlapm 1.4.5 is not sound for a
function that one EXCEPT, or two nested ones, updates twice at what may be the
same key (`[f EXCEPT ![k].a = x, ![k].b = y]`): a contradiction follows from such
an equation. The modules therefore update a function once and the record
inside it (`[f EXCEPT ![k] = [f[k] EXCEPT !.a = x, !.b = y]]`), which means the same
and is encoded as the update it is. The one double update left, `ProductsToSelected`
in `CategoryBrowser`, is an altered form of `GetProducts` that no proof mentions.

## 6. Findings

1. `MCTaxonomyDbTwoReparents`. `docs/specs/architecture.md:67` has reparent take
   an advisory lock; `reparent_category` takes none, and two overlapping
   reparents close a cycle. A later plan
   (`docs/plans/20260803-backend-taxonomy-tree.md:164`) accepts this.
2. `MCTaxonomyDbAssignAndCreate`. An assign that overlaps a create of a child
   leaves a product on a category with children, which the same plan
   (lines 35 and 36) rules out.
3. `MCCatalogIngestSameBytes`. Two retailers whose files have the same bytes, such
   as two files with a header only, share one snapshot row. The second one is
   imported and committed, and then reported as having no CSV. `OkMeansImported`
   still holds: the error goes in the safe direction.
4. `MCProductImportCounts`. A refused row aborts the transaction of its batch in
   Postgres; `upsertBatch` catches the error and goes on, its COMMIT is then a
   rollback, and it returns the rows before the refused one as inserted.
   `product-repository.ts:27` documents the counts as those of inserted records.
   `CleanReportIsTrue` still holds: such a batch reports a failure.

Differences between the code and its documents that were met while modelling
and have no run of their own:

- The early signal handler stays in place while `main`'s `finally` shuts
  telemetry down (which exports what is left over the network). A signal there
  raises `SystemExit(0)` in place of the `SystemExit(1)` under way: a migrate
  that has failed exits 0, where `migrate.py:39` documents 1. `Signal` with
  `Interrupted` has this step, and `OkMeansInstalled` is therefore stated for
  runs without a signal.
- `.kiro/specs/product-categorization-system/requirements.md:73` has the registry
  maintain a count of products per category; `assignProducts` recounts the
  category a product joins, not the one it leaves. `CountNeverLow` is what remains
  true.
- The same file, line 161, has the client enforce timeouts; the awaits at
  `llm-client.service.ts:168` and `:228` have none, and a stream timeout is not
  retried, since its message says "timed out" and not "timeout".
- `.kiro/specs/csv-data-importer/requirements.md:108` asks for total quantities of
  multi-packs; `6x5dl` is read as 5 dl. `CheaperIsNotDearer` leaves such labels
  out (`Plain`), and with them fractions of a count, of which
  `unit-normalizer.ts:71` reads the last digits only ("1.5 Stk" is 5), and numbers
  with a thousands separator. Lines 105 and 106 ask for kilograms; the code keeps grams, so that
  prices of cheap goods round to 0.00 or 0.01 per gram.
- `categories.service.ts:29` says the categories come by descending product count;
  they come by name (`category.repository.ts:89`).
- `assign_product_to_leaf` computes `moved` from a plain SELECT and upserts later;
  an assign of the same product that commits in between makes it false, where
  `commands.py:332` says "True when the product already had a different leaf".
- `LandingPage.tsx:31` and `:38` show a spinner by `isLoading`. A query that begins
  without a network, or is about to be retried without one or on a hidden page, is
  paused, which is neither loading nor an error: the page has a title and nothing
  else, where `.kiro/specs/category-browser/requirements.md:48` asks for a loading
  indicator. `NeverBlank` is therefore stated for a page that is seen and online.
- The command line prints `product_count` as it was read before the assignment
  (`category-discovery.agent.ts:405`).

## 7. What is not modelled

- Text: parsing of decimals and URLs, trigram ranking, prompts, formatting.
  Stateless, and covered by the repository's unit tests.
- Postgres beyond what the code relies on: READ COMMITTED visibility, row
  locks, unique keys, foreign keys, deadlock detection. Serialization failures
  do not occur at this level.
- Deletion: no command deletes a row.
- Repository methods nothing but tests calls: `updateCategorySchema`,
  `updateProductCount`, `updateProductCategory`, `updateProductAttributes`,
  `markAsReviewed`, the statistics of the execution log. (`saveSchema` and
  `registerAttribute` have no caller outside tests either, but are written for
  several clients; they are modelled.)
- Of an imported row the currency, attribute, discount and category columns,
  which are copies or word matches; of a card of the page its layout and fields.
- Liveness of the command line: `MigrateRole` states no fairness. Its waits have a
  bounded number of attempts; that the worker ends after a signal rests on its
  polling loop alone.
- The time of a legacy scrape: files are imported in directory order, so nothing
  can be stated about it.
- Containers and CI have no state of their own that the code changes.
- The review queue: one INSERT that refers to a product, one SELECT. That the
  product it refers to keeps its id is `IdsAreStable`.
- The ranked reads of the taxonomy (`search_categories`,
  `list_category_children`) and the LLM tools that format them: they change
  nothing. The page and the count of `list_category_children` come from two
  statements and may disagree.
- Spans: the only caller opens one leaf span and ends it.
- What the application commands print, and which exceptions of theirs are
  printed as an error line and which as a traceback; the exit code is 1 for both.

## 8. Plan

1. For the command line: that a signal ends the worker and the API server, under
   fairness.
2. What several program versions that ingest at once leave true of the policies.
3. The context stack of the telemetry adapter, once a caller nests spans; the
   review queue, once items change state.
