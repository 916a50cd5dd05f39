# A verification of GoGento

GoGento (`src/`) is a Go service that serves a Magento database: REST and
GraphQL APIs and HTML pages over categories and products, kept fast by
in-memory caches shared by all request goroutines, and command-line jobs that
write the same tables in bulk. This directory holds TLA+ models of the parts
of it that carry state, TLC configurations that check them on small
instances, and TLAPS proofs of what matters most for every instance.

Every definition is a translation of the code at the lines `PROJECT.json`
names under `map`. A comment that begins "Mutant" marks a definition that is
no part of the model: it is a plausible bug, substituted for the definition
after it to see that the properties notice.

## 1. The system

| Component | State it keeps | Operations | Modelled |
|---|---|---|---|
| Category repository, `model/repository/category` | categories per store; trees per store; attribute metadata loaded under a `sync.Once`; two RW locks | fetch all, by id, by ids; build the tree; invalidate | `CategoryRepo` |
| Flat product repository, `model/repository/product` | flattened catalogues per store behind an RW lock; attribute codes under a `sync.Once` | fetch all (with a limit), fetch by ids; create, save, delete | `FlatProducts` |
| Product REST API and service | none; drives the repository | list, get, flat, flat by ids, create, update, delete | `FlatProducts` |
| GraphQL resolvers | none; read and write the maps they get from the repositories | products, product, magentoProducts, search, categories | in both, as callers |
| HTML pages | none; the product page writes into cached product maps | product, category | in both, as callers |
| Product import, `service/product/import_*.go` | the SKU map, the collected rows, two levels of error channels; the product, attribute, stock, gallery and price tables | import a CSV file | `ProductImport` |
| In-memory cache, `core/cache` | `sync.Map` of entries with expiry, `sync.Map` of tags, a dump file | set, get, delete, tag, untag, delete by tag, dump, restore | `Cache`, refining `ForgetfulStore` |
| Realtime API, price and inventory repositories | which schema the database has, under a `sync.Once` | price, stock, both, tier prices of a SKU | `Realtime` |
| Sales order grid API | order table, a Redis list with a five-minute lifetime | list, get, create, update, delete | `OrderGrid` |
| Product JSON indexer, `cmd/product_json.go` | JSON table, batches | index all products in batches | `ProductJson` |
| Stock import API | stock table | import stock rows as JSON | `StockImport` |
| Registries, `core/registry`, `api`, `graphql`, `cron`, `cmd` | name to module, lock flag | register, lock, get, delete | no: see section 5 |
| Authentication, `core/auth` | none | check a request | no: stateless |
| Cron, configuration, image resizing, log, templates | read once, or files | | no: libraries and I/O |

How they interact. Every HTTP request runs on a goroutine of its own. Requests
call the two repositories, which are singletons, and get Go maps out of their
caches *by reference*: the caches, the goroutines and the maps' contents are
shared state. The realtime endpoints read the price and stock tables
directly and share no more than the detected schema; the order endpoints share
the Redis list. The import and the indexer run as processes of their own: they
share only the tables with the server, and nothing tells the server's caches.
The import itself runs one goroutine per module and, for the attributes, one per typed
table; errors come back through buffered channels.

What is hard here:

* caches filled after a check and an unlock, while others fill, invalidate and
  write (both repositories);
* fields read or created without the lock that guards them (`r.cache == nil`,
  the metadata's `Once`, the contents of cached maps);
* results of a failed load that a `sync.Once` makes permanent;
* an answer put together from a cache and several queries, at different times;
* first requests that race for one detection (`schemaOnce`), whose failure stays;
* entries and their tags, kept in two concurrent maps without a lock around both;
* a list in Redis that no write removes, and rows that are read, changed and
  saved whole;
* one step of several failing, when the other steps' writes stay: the import
  has no transaction around its tables;
* identifiers that come from one query and are used in the next
  (`LAST_INSERT_ID()` through a pool, SKUs looked up before they are created).

What makes each component right:

* *category repository*: no write meets a nil map; what the caches hold is no
  older than what was in flight at the last invalidation; what is cached has
  its attributes; a lookup by ids misses nobody; every call returns;
* *flat products*: only whole catalogues are cached; a map that is being
  filled is private; a lookup finds what is there; the filter of a query is
  respected; nobody writes a map another goroutine is in; the cache settles;
* *import*: each SKU is one product; SKUs map to their products; the file's
  last value wins in every table; an error of any goroutine fails the import;
  the import returns, and nothing it started outlives it;
* *in-memory cache*: a lookup answers the last live value of its key or nothing;
  tags are not lost to others that tag; deletion by a tag deletes; a restart
  brings back only what was saved;
* *realtime*: a price answered is one the customer could be offered during the
  request, never the placeholder of a missing one; a price goes missing only for a
  reason; every request is answered, though all wait for one detection;
* *orders*: each column is what was last given for it, but for the updates that a PUT loses
  which overlaps another, or names another order in its body; lists settle;
* *indexer*: a run that prints no failure has indexed all it fetched, and fails
  only for a reason; *stock import*: the last item of a SKU wins, and only what is
  unknown is skipped.

## 2. The modules

### `CategoryRepo`

A goroutine is a program counter (`pc`), an operation (`op`), a store and the
locals of the function it is in. There is one action per stretch of code
between two points where another goroutine may come in: the test of
`r.cache == nil` (`NilCheck`), the creation of the map (`MakeCache`), the
lookup under the read lock (`CacheLookup`), the query (`LoadCategories`), the
`Once` (`MetaOnceDo`, `MetaLoad`, `MetaRead`), the store under the write lock
(`StoreCategories`); the same for the tree, for the loop over ids, which takes
the lock for each of them (`IdLookup`), and for the two invalidations.
`InvalidateCache` is two actions because it takes the tree's lock while it
holds the cache's. The category tables are a version and the set of ids they
hold, bumped by `WriteTables`; a category is its id; a tree is the snapshot it
was built from. Failures of both queries are modelled.

Ghosts (`metaLost`, `floor`, `invVer`, `callInv`, `stable`) record what the
properties compare with: whether the metadata was ever lost, the oldest data
that was in flight when the last invalidation ended, the version of the tables
at that time, and the requested ids that stayed in the tables.

`InvalidateMeta` follows the code up to the point where it would replace a
`Once` whose function runs: that ends the process, and a restart is `Init`.

### `FlatProducts`

A catalogue (the Go map of flattened products) has an identity, a member of
`Refs`; `rows` says which products are in it, `cache` which store's catalogue it
is. Identities that nothing refers to are reused, as memory is. The loads pluck
ids (`Pluck`), fetch batches of `BatchSize` (`FetchBatch`) and store the result
(`Fill`); `ByIDs` is the lookup by ids with what it takes from the cache and
what it fetches. `Got`, `FetchAgain` and `Failed` are what the resolvers do with an
answer or an error, among them the two-stage queries; `Use` is a goroutine in
one product's map, and `Writes` tells who writes into it. Create, delete and the
two halves of update change the table and leave the cache alone. A SKU stands
for the id it has; ids are not reused.

### `ProductImport`

One action per query: the lookups in batches (`Lookup`), the creation
(`InsertEntities`; under the staging schema `InsertSequence`, `InsertRows` and
`ReadLastInsertID` for each batch), each write of each goroutine (`WriteTable`, `WriteGallery`), its failure
(`WriteFails`), the sending of a module's result (`Send`), and the end of
`wg.Wait` (`Join`). The product table is a sequence of SKUs, indexed by id;
`Nil` in it is an id whose insertion was rolled back. A row of the file is a
SKU, which may have spaces in front, and a cell per table; a cell is a value,
blank, or does not parse. Raw SQL commits every batch; GORM's `CreateInBatches`
is one transaction. Which product the id of a row means is kept exactly,
because errors dropped by the code show only there: a lookup that failed finds
nobody, a creation that failed leaves ids zero or rolled back, and
`LAST_INSERT_ID()` on another connection is zero. Under the staging schema the ids of a
batch come from `sequence_product`; when that insert or the query of its first id
fails, or takes another connection, the entity ids are wrong, and the insert of
the products may fail without a failure of its own (whose the entity ids are, is
not told apart: no query of the import uses them again). The columns of one typed
table, and those of a stock or price row, are one cell; in the staging schema
a product has one id, its row id. Which schema the database has (`enterprise`) is
a variable chosen at the start, so that one run checks both. Four ghosts hold
what the properties except: `rewritten`, the cells that other imports wrote since an
import wrote them itself; `uncreated` and `misread`, the SKUs whose insert failed
and those whose row ids came from another connection; `doubtful`, the SKUs
an import may not have known to be products': products doubled before, SKUs a file
names twice or padded, those of a lookup that failed, and those two imports named
before either had created its products.

What the loops over a file's rows collect is the rows at a set of positions (`New`,
`Good`), in their order. `Positions` has the operators for that: `Nth`, the k-th of
a set of positions; `Kept`, the elements at them; `Greatest`, the one that counts
where the last row wins. `StockImport` uses them too.

### `Cache` and `ForgetfulStore`

One action is one operation on one `sync.Map`; a loop over keys or tags is one
action per key or tag, in any order, as `Range` gives none. Time is the clock of
the expiries; reads, deletions and expiries take two operations (load, then
delete), and another goroutine's `Set` may come between. A tag's map has an
identity, since `TagKey` may hold one the index has dropped. `Crash` empties the
process and leaves the file; `CallRestore` reads it.

`ForgetfulStore` is what a cache promises: a key has an item or none, a lookup
answers with the item if it has not expired, and items may be forgotten at any time;
it may also be put back to entries that were once saved. `Cache` implements it under
`ImplementsStore`: the code's entries are the store's, and every one of
its steps is a step of the store or changes nothing there.

### `Realtime`

A request is in two goroutines, one for the price and one for the stock; each
query is an action, and so is passing through `schemaOnce` (`Enter`, `Detect`).
The price query is translated whole: the placeholder 999999999, `LEAST`, the join
of the tier prices and the `LIMIT 1` that leaves any one of them. A query of the tier
prices may fail, or break off: the code does not ask for `rows.Err()` and skips rows
that do not scan, so any part of the tiers is answered then (`QueryTiers`). A detection
that failed is no failure of the request: what its query brings decides the
status (`Status`). Magento's writes are
the environment. `seen` is a ghost: what the product and its stock have been since the request
began.

### `OrderGrid`, `ProductJson`, `StockImport`, `Services`

`OrderGrid`: an order is a function from columns to texts and stamps; listing is two
actions (the query, and the `Set` in Redis), a PUT two (read, bind and stamp; save).
`created_at` and `updated_at` are columns, which a POST and a PUT stamp whatever the
body gives. The body may name another id than the path. The ghosts are a history:
`latest`, what the last successful request gave for each column of each order, and `lost`,
the columns a PUT has put back since. `ProductJson`: fetching, reading the rows and each
batch are actions; batches are any products of their kind, since Go ranges over the
map in random order; a failing batch leaves all its rows. `StockImport`: the lookup
of each chunk, then the upsert of all rows in one transaction; products come and
go in between. A request without items is answered with 400.

The three share no variable and no table, and their interleavings add nothing:
`Services` lets one of them run while the others rest, and one run checks all.

### Composition and abstract specifications

The modules meet at the product and category tables, which each of them keeps
for itself with the writes of the others as environment (`WriteTables`, `Create`,
`Delete`). A composition of `FlatProducts` and `ProductImport` over one product
table is left for later. The one abstract specification is
`ForgetfulStore`.

## 3. The runs

`PROJECT.json` lists each run with its properties; each property of a passing
run has a mutant of the code it rejects.

| Run | Instance | Shows |
|---|---|---|
| `CategoryCaches` | 2 goroutines, 1 store, 2 ids, 1 write of the tables; fetches, trees, lookups of up to 2 ids, invalidations | `TypeOK`, `NoNilMapWrite`, `StalenessBounded`, `CachedWithAttributes`, `ByIDsComplete` |
| `CategoryReturns` | 2 goroutines, every operation, fair | `CallsReturn` |
| `CategoryAttributes` | | **violated** `MetaReturned` |
| `FlatLookups` | 2 goroutines, 2 products, 3 catalogues, batches of 1; loads, limited loads, lookups by ids, creations | `TypeOK`, `CatalogueComplete`, `LoadsArePrivate`, `LookupsFind` |
| `FlatSettles` | 2 goroutines, 1 product, the queries, update and delete | `CacheSettles` |
| `FlatRequested` | | **violated** `RequestedFound` |
| `FlatRace` | | **violated** `NoConcurrentMapAccess` |
| `Imports` | 1 importer twice, 2 SKUs, a file of 4 rows, 5 tables, either schema, raw SQL, batches of 2, any one query fails, fair | `TypeOK`, `LastValueWins`, `NoDuplicateProducts`, `NewProductsExist`, `SkuToIDRight`, `ErrorsReported`, `NoWriteAfterReturn`, `ImportReturns` |
| `Cache` | 2 goroutines, 2 keys (one printed as the other), 1 tag, 3 calls, 2 seconds, restarts | `TypeOK`, `TagsStick`, `DeleteByTagDeletes`, `ImplementsStore` |
| `Realtime` | 2 requests, 1 SKU, 1 source, 2 groups, 3 products, 1 write, 1 failure, fair | `TypeOK`, `PricesCurrent`, `PricesFound`, `StockCurrent`, `RequestsAnswered` |
| `RealtimeLowest` | 1 request, the same tables | **violated** `LowestPrice` |
| `Services` | one at a time: 2 clients, 2 orders, a column and the two stamps, 2 writes; 2 indexers twice, 3 products, batches of 2, 1 failure; 2 imports of up to 3 items in chunks of 2, 3 product ids, 1 failure | `TypeOK`, `UpdatesKept`, `ListsSettle`; `IndexedAll`, `FailsForAReason`; `LastItemWins`, `SkipsTheUnknown` |

The violations are disagreements of the code with its own comments and docs;
`PROJECT.json` quotes them under `findings`. The modules state five more
properties that the code does not satisfy and no run shows yet:
`FreshAfterInvalidate` (a load in flight stores an old snapshot after
`InvalidateCache`), `UnknownIdIsNoPanic` (`cats[0]` of an empty slice),
`SkuFilterRespected` (a `products` query whose SKUs are unknown answers all
products), `KeysAreCodes` (the attribute codes' load fails once) and
`GalleryUpserted` (images are inserted again by every import).

What the other properties say of the code's weaknesses is in their exceptions:

* `NoDuplicateProducts`: a new SKU on two rows, a known one with spaces in front, the SKUs of a
  lookup whose error `lookupSKUs` drops, and those of two imports that look them up before
  either creates them may become two products, although `doc/rest-api.md:122` says that
  existing products are updated. No other SKU does.
* `NewProductsExist`, `SkuToIDRight`: the SKUs of a batch whose insert failed are no
  products, and nothing tells; those whose `LAST_INSERT_ID()` went through another
  connection map to any id. No other SKU does.
* `PricesCurrent`: the price is the least of the own prices and of *one* tier that matches. The
  lowest it is not: `RealtimeLowest` shows a logged-in customer with two tiers
  who is answered the higher, against `doc/realtime-api.md:500` and the
  comment at `price_repository.go:42`. Tier prices are all those of a
  moment, unless their query broke off.
* `UpdatesKept`: a PUT puts back every column it does not give that changed between its read and
  its save, and, when its body names another order, all of that order's columns. No
  other update of a column is lost, and no deleted order comes back but by such a save.
* `LastItemWins`: all columns of the row, zeroes and defaults included, are the last
  item's. One column is excepted: a `min_sale_qty` of 0, given or by default, is stored as
  1, because gorm puts the default of the column (`stock_item.go:18`) in the place of
  a zero. `doc/rest-api.md:67` has 0 as the default, so the code disagrees with it
  here; without the exception TLC finds the property violated.
* `MetaReturned`: the comment of `LoadCategoryAttributeMeta` (`category_repository.go:272`) says
  that it loads the attributes and returns their map. Its error is a local of the call in which the `Once`
  runs, so after a load that failed every later call returns no map and no error.

### Bounds

* Two goroutines: each of the hazards is a race of one operation with another,
  and the third party, the writers of the tables, is an action of its own.
  `Refs` has one more member than goroutines, since each goroutine holds at most one
  catalogue and the cache one.
* `MaxVersion`, writes of the category tables: one write makes "before" and
  "after"; the liveness run needs none. `MaxIds` is the longest request: two ids
  make a cached one and a missing one.
* Batches of 1 (two products), or 2 (three rows): a full batch, a partial batch, and
  a batch boundary inside what is fetched or written.
* `MaxRuns` and `MaxFailures` bound the imports and the failing queries: a retry after
  one failure, anywhere. A query that takes another connection counts as a
  failure here. `MaxProducts` is the most that two imports of the
  file can create, rolled back ids included, so it stops none: `ImportReturns` would fail. Imports that overlap have too many states for a run (two
  importers, more than two million); for them the safety properties rest on the theorems, which hold for
  any number, and `ImportReturns` on its being about the goroutines of one import, which share no
  channel with those of another.
* The import run sets `CHECK_DEADLOCK FALSE`: after its last import a command
  has nothing left to do. The server's runs check deadlock.

* `Cache`: three calls are enough for two goroutines in one key or tag and a removal or
  dump between them; two seconds for an item to expire and one to follow it.
* `Realtime`: two requests, one of which detects the schema for the other; one write
  between two queries; one failure. The tables have a tier price of 0, two tiers that match a group, a
  tier for two pieces, a special price, the placeholder as a price, and no price at all.
* `Services`: two writes of orders are two overlapping PUTs, or a write beside a list;
  batches of 2 of 3 products are a full one and a partial one; two runs of an
  indexer are a first one, which inserts, and one that updates; three items in chunks of 2
  are a SKU in each chunk.
* `Cache`, `Realtime` and `Services` set `CHECK_DEADLOCK FALSE` where it is set: their
  calls, requests and writes are bounded, and after the last nothing is left to do.

### Fairness

`CategoryRepo`: strong fairness of each goroutine's steps. A goroutine the
scheduler runs is not stopped for ever by others that take and release a lock:
Go's `RWMutex` blocks new readers once a writer waits and lets the waiting
readers go first when it is done. Nothing makes calls happen, and
`WriteTables` is unfair. `ProductImport`: weak fairness of each import as a whole: while any
of its goroutines can go on, one of them does. That is all that is needed, for the import's goroutines
are finite work and none can undo what another waits for. That a query always ends is assumed.
`Realtime`: weak fairness of each request's steps; whoever waits for the `Once` waits for a
goroutine that has one query to make. `Services`: weak fairness of the second half of a
list and of a PUT, and of Redis's clock (`ExpireList`), without which nothing would
ever remove a list. Nothing makes requests come.
`CacheSettles` needs no fairness: it says that changes are finite.

## 4. The proofs

TLAPS checks, for all values of the constants under each module's
assumptions (`ConstantsAssumption`, and `GridAssumption`, `IndexAssumption`,
`StockAssumption` for the parts of `Services`), every invariant the passing runs
check and the one refinement:

* `CategoryRepo_proof`: `TypeCorrect`, `NeverNilMapWrite`, `StaleOnlyFromFlight`,
  `AttributesCached`, `LookupComplete`. The inductive invariant adds what each
  stage of a call knows: which operations are at which points (`CallAtPoint`),
  that past the creation there is a map (`CacheMade`; it holds though the creation
  is not locked, because no action ever sets the map back to nil), that data in flight
  is at least as new as `floor` (`StaleInv`), that a goroutine past the `Once` has
  metadata unless it was lost (`AttributesInv`), and that what is still to be looked up,
  found or missing covers the ids that stayed in the tables (`ByIDsInv`).
* `FlatProducts_proof`: `TypeCorrect`, `LoadsPrivate`, `CatalogueWhole`. The
  invariant says that a load of everything has, of the ids there since it began, each
  in its catalogue or still to fetch (`LoadsComplete`), and that its catalogue is
  nobody else's; privacy is what keeps the former true while others load.
* `Positions_proof`: lemmas about lists and positions. The k-th of a set of
  positions exists, is one of them, and grows with k (`NthIs`); what is kept is
  the elements at the positions, each once, in their order (`KeptIs`). An
  induction over numbers is made with the least number that is against the claim
  (`LeastNumber`, from the library's well-foundedness of < on the naturals): the
  library's induction theorems take an operator, which the provers cannot instantiate.
* `ProductImport_proof`, seven theorems.
  - `NothingWrittenAfterReturn`, `NoErrorLost`: a module that has sent its result has
    no goroutine running, and none that failed when it sent nil (`Waited`); an import
    under way has no result (`UnderWay`).
  - `ImportTypeCorrect`: that no goroutine writes past what was collected needs that
    the map and the rows do not change while it writes, and that an id given out fits the
    table (`LastIdFits`, `PosBounded`).
  - `TheLastValueWins`. The invariant (`WriteInv`) is the property for a prefix: of the rows of a table
    written so far, the last for a product is in the table, unless another import
    wrote it since (`PrefixHeld`); who is done has written them all (`DoneIsAll`).
    The upsert is a fold over a batch; that it leaves for each id the batch's last value, and
    the other ids alone (`UpsertIs`), is proved by the least batch length for which
    it does not.
  - `TheNewProductsExist`, under either schema and whatever fails: after the lookup
    each SKU of the file is a product's, or to be created, or one whose insert failed (`AllSold`);
    products are only ever appended.
  - `TheMapIsRight`, likewise: every id in the map is a product's with the SKU (`MapRight`),
    unless the SKU is `uncreated` or `misread`. Between the insert of a batch and the read of
    its first id the invariant speaks of the ids the batch is about to get.
  - `NoProductTwice`, for any files, catalogues, failures and overlapping importers: an SKU that is not
    `doubtful` is apart (`Apart`), that is, at most one product has it; at most one import that has
    still to create its products names it, in one row; and what that import looked up and
    did not find no product has, until it is inserted (`Known`, `Fresh`).

  None of the three assumes anything: what the code gets wrong is in the ghosts, each
  of which grows only in the step that goes wrong.
* `FlatLookups_proof`: `SingleFound`, the two-stage queries included. Per goroutine: the
  products that stayed in the tables since it asked are among those it asks for,
  and while it loads they are in its map or still to be fetched (`Fine`). It rests on the
  privacy of maps being loaded.
* `Cache_proof`: `CacheTypes`, `CacheTagsStick`, `CacheDeleteByTag`, and
  `CacheIsForgetfulStore`, the refinement. The invariants say that a tag's map that is
  still being filled is in the index unless something was removed (`Loose`, `Held`),
  that what `DeleteByTag` owes is still ahead of it (`Owed`), and that what a dump has collected
  was in the store (`SaveInv`).
* `Realtime_proof`: `RealtimeTypes`, `RealtimePricesCurrent`, `RealtimePricesFound`,
  `RealtimeStockCurrent`. The invariant says that one request detects and no query is made
  before (`Detection`), that a request has seen what is in the tables
  (`Seeing`), and what that means for what its queries have brought (`PriceOK`, `TiersOK`,
  `StockOK`).
* `Services_proof`, six theorems. `ServicesUpdatesKept`: what a client about to save has of the
  order it read differs from the table only in columns it gives or that are
  `changed` (`Saving`), which are those its save may lose. `ServicesIndexedAll`,
  `ServicesFailsForAReason`: what is no longer `left` is in the table, and what is left
  and was not known has a row only if another indexer wrote it (`Batching`).
  `ServicesSkipsTheUnknown`: an SKU in a chunk already looked up has an id, or lacked a product
  at some moment, or a lookup failed (`Asked`); that the chunks leave out no item is
  `ChunksMeet`, and that an import has looked up all of them when it writes is part of `Asked`.
  `ServicesLastItemWins`: ids are given once, so that neither two SKUs nor an SKU
  and what another had when it was looked up share one (`StockIds`): the last item
  for an SKU is then the last for its product, the one the upsert leaves
  (`UpsertedIs`), and a new product cannot come to own an old row. `ServicesTypeCorrect`:
  among the types, that a stock row is one of a product that is there.

The assumptions on constants are what the code or Go's types give: requests are lists
of items, a batch size that is not positive is replaced by a default, the blank of a
column is a text, the bounds are numbers. No theorem assumes anything of the
environment.

Model-checked only: the liveness properties (`CallsReturn`, `CacheSettles`,
`ImportReturns`, `RequestsAnswered`, `ListsSettle`), which are beyond the prover.

## 5. What is not modelled

Rendering and encoding (templates, JSON, GraphQL types, the report of a
command), prices' and stocks' arithmetic, the queries' text, authentication, and the
libraries (GORM, Redis, Elasticsearch) beyond the outcomes their callers see.
Within the modelled components: the shape of the category tree, the order of
products in an answer and pagination, what the product page leaves in a cached
map, partial stock rows (an import of some stock columns resets the others to
defaults), the count of products the indexer prints, and Go's memory model beyond "two goroutines are in one map".

Whole components: the *registries* are maps that `init` functions fill one after the
other, and that are locked before the server listens; nothing runs beside that, and
their operations hold a lock from beginning to end. *Authentication* is a function of
a request. *Cron*, configuration, logging and image resizing are libraries and
I/O.

Weaknesses the models contain but no property judges, because nothing in the
repository says what should happen: an update of an order whose body names another
id saves that other order (`sales_order_grid_api.go:90`); an update of a product that overlaps
another, or a deletion, undoes it (`product_service.go:44`; for orders `UpdatesKept` says what is lost); rows of
deleted products stay in the JSON table and an older run may overwrite a newer one
(`product_json.go:93`), and with an empty catalogue the command divides by zero in
its report (`:150`, the stage `panicked`); a key
tagged while its tag is deleted may stay untagged (`cache.go:249`), as may one that is
set while it is deleted (`cache.go:92`); a pair of a failed price and a found stock is
answered with the price 0 (`realtime_api.go:142`).

## 6. Plan

1. `Catalogue`: `FlatProducts` and `ProductImport` over one product table, so that the
   caches' staleness counts imports; the tree of categories as an operator against a
   reference definition.
2. Realtime answers beside `StockImport`: they read `inventory_source_item`, and the
   import writes `cataloginventory_stock_item`, which only Magento's indexers join.
3. Proofs: the safety part of `ImportReturns` (no channel is ever full when a goroutine
   sends), and what a step of each of the other liveness arguments needs: that a measure of
   the work left decreases.
