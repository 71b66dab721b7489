# Findex: TLA+ models and proofs

Findex (Spring Boot, JPA/Hibernate, PostgreSQL) keeps stock-market indices and
their daily figures, lets users edit both, and synchronises them from the
data.go.kr Open API, by hand or every night. This directory models the parts of
it that are hard to test: what concurrent requests and syncs do to the tables,
how a sync fetches on a shared thread pool and saves, what a night leaves out,
what a client sees that pages through a changing table, and what the list pages
of the web client show when answers are late, lost or out of step.

Paths below are relative to `src/src/main/java/com/sb13/findex/`.

## Inventory

| component | state | operations | modelled in |
|---|---|---|---|
| Index info service (`indexinfo/`) | `index_info` | create, update, delete, saveOrUpdateOpenApiInfo, search | `IndexStore` |
| Index data service (`indexdata/`) | `index_data` | create, update, delete, deleteByIndexInfoId, saveOrUpdateOpenApiData, search, CSV export | `IndexStore` |
| Auto-sync config service (`autosyncconfig/service`) | `auto_sync_config` | create (with the info), update, createIfAbsent, deleteByIndexInfoId, list | `IndexStore` |
| Sync job history (`sync/service/impl`, `sync/repository`) | `sync_job` | indexInfoSaveAll, indexDataSaveAll, detachIndexInfo, search | `IndexStore` |
| Database schema (`resources/db/migration`) | keys, foreign keys, locks | | `IndexStore` |
| Sync job manager (`sync/service/SyncJobManager`) | one run: its batch, futures, outcomes | syncIndexInfos, syncIndexDataList | `SyncManager` |
| External API executor (`externalapi/config`) | pool threads, queue | submit, take, finish, reject | `SyncManager` |
| Auto-sync scheduler (`autosyncconfig/scheduler`) | none of its own; reads the newest base date | syncEnabledIndexData | `AutoSync` |
| Cursor searches (four `*RepositoryImpl`) | none; a client carries cursor and hasNext | search, count | `CursorSearch` |
| Open API paging (`externalapi/dto`, `SyncJobManager.fetchPagesAsync`, `fetchStockMarketIndexes`) | one fetch: pages read, newest item per index | getTotalPages, selectLatest, pages in parallel or in turn | `PageFetch` |
| Web client (`src/src/main/resources/static/assets/index-D-ZKSpBz.js`) | per list page a store: items, filters, cursor, isLoading | fetch, fetchNext, open, filter, create, edit, delete, switch | `WebList` |
| Dashboard (`indexdata/service/DashboardIndexDataService`) | none | performance, rank, chart | not modelled |
| Controllers, Swagger, mappers, exception handler, CSV, tests | none | | not modelled |

How they interact: a request thread calls a service; a sync thread (a request
or the nightly timer) calls `SyncJobManager`, which submits fetches to the
executor, joins them, and hands the commands to `SyncJobServiceImpl`. That
opens an outer transaction, calls `saveOrUpdateOpenApi…` in a `REQUIRES_NEW`
transaction per command, and writes the `sync_job` rows at the end. Services
share nothing but the database and its connection pool; the manager's runs share
nothing but those and the executor. The web client has one store per list page;
it searches, and follows each change it makes by a search.

## What is hard here, and what makes each part correct

| component | hard behaviour | correctness |
|---|---|---|
| the four services over the tables | READ COMMITTED transactions without `@Version`: exists-then-insert, read-then-flush of whole rows, deletes in several statements, one `REQUIRES_NEW` transaction per synced item | names and keys unique, no orphans, a config exactly per info, USER figures not overwritten, nothing resurrected, no wait for ever |
| sync job history | written after the rows it speaks of, by another transaction, in statements that see different moments; a run's batches share an execution id; kept when an info is deleted | all or none of a batch, never changed afterwards, true when it is noted, refers to live infos or none |
| sync job manager and executor | runs share a bounded queue and a bounded pool of connections, of which each save needs two; rejected tasks, a `join()` without timeout, saves that stop half-way, a crash | what returns is whole, nothing waited for is lost, no wait in vain, every run ends |
| paging | pages shift while they are read, in parallel | none missed but where the API makes it inevitable, newest item kept |
| scheduler | the newest stored date is the only memory of where to resume | no gap below it, and every index catches up |
| web client | one load at a time and nothing cancelled: early returns, answers for older filters, switches shown before they are done, lost requests | a quiet list is what the server has unless a refresh was skipped or lost, its rows are in order, every load ends, every row comes |
| cursor searches | rows change between two pages, the cursor's own row included; NULL sort keys; booleans | order, no duplicates, stable rows shown, honest hasNext and total |

PROJECT.json lists each such hazard at its line with the properties that cover it.

## Modules

### IndexStore: tables and transactions

`info`, `config`, `data` and `job` are the committed rows of `index_info`,
`auto_sync_config`, `index_data` and `sync_job`; `nextInfo` and `nextData` are
the id sequences. A process of `Proc` is a thread in one service call, `tx[p]`
what its open transaction has read and written. A service method is split where
another transaction can come between: after a read whose value is used later,
and where a lock is held across statements.

| code | actions |
|---|---|
| `IndexInfoServiceImpl.create` | `CreateInfoBegin`, `CreateInfoInsert` |
| `IndexInfoServiceImpl.update` | `UpdateInfoBegin` (reads the row), `UpdateInfoFlush` (writes all of it) |
| `IndexInfoServiceImpl.delete` | `DeleteInfoBegin`, `DeleteInfoRows` (bulk DELETE), `DeleteInfoLoad`, `DeleteInfoFlush`, `DeleteInfoCommit` |
| `IndexDataServiceImpl.createIndexData` | `CreateIndexDataBegin`, `CreateIndexDataInsert` |
| `updateIndexData`, `deleteIndexData`, `AutoSyncConfigService.update` | `UpdateIndexData`, `DeleteIndexData`, `UpdateConfig` |
| `SyncJobServiceImpl.indexInfoSaveAll` with `saveOrUpdateOpenApiInfo` | `SyncInfosBegin`, `UpsertInfo`, `SyncInfoCommit` |
| its `saveInfoAll` and commit | `SaveInfoJobs`, `WriteInfoJob` (one statement), `CommitInfoJobs` |
| `SyncJobManager.executeSync`, `fetchInBatches` | `SyncDataBegin` (draws the execution id), `NextBatch` |
| `SyncJobServiceImpl.indexDataSaveAll` with `saveOrUpdateOpenApiData` | `SyncDataRead`, `SyncDataUpdate` or `SyncDataInsert` |
| its `saveDataAll` and commit | `SaveDataJobs`, `WriteDataJob` (one statement), `CommitDataJobs` |
| PostgreSQL, the process | `DeadlockVictim`, `Abort`, the lock guards |

Abstractions. The figures of a row are who supplied them (USER or OPEN_API).
`UpdateConfig`, `UpdateIndexData` and `DeleteIndexData` are single steps, since
what they flush does not depend on what they read and a row that vanished
meanwhile fails the call as a missing one does. `DeleteInfoLoad` joins the two
re-reads. `saveDataAll` and `saveInfoAll` are a JDBC batch: one INSERT .. SELECT
per command, each with a snapshot of its own, and the commit of the outer
transaction after the last. `jobs` holds the entries inserted so far; the foreign
key of an entry keeps a KEY SHARE lock on its info (`InfoShared`), so a delete of
the info waits for the commit, and an entry about an info that is already gone
fails its run. A run over index data draws one execution id for all its batches;
`later` are the targets of batches to come, of which the API may return nothing.
The commands of a batch are a set, taken in any order.
The row locks of `sync_job` are left out: two deletes of one info already wait
for each other on the config row, and the foreign key of a job sets NULL at
their commit. `Abort` stands for a crash, a lost connection or a failing
statement, since all of them leave the committed rows and drop the transaction.

### AtomicStore: what a reader of the tables sees

The abstract specification of the store: one operation at a time on whole rows,
with no thread, transaction, lock or stale copy. `Register` adds an info with
its config, `Deregister` takes an info with its config, its data and every
reference to it, `Store` adds data for a live info and a free date; `Revise`,
`Switch`, `Overwrite` and `Drop` are single writes. A run opens an execution
(`Start`), notes an entry that tells what the tables hold at that moment
(`Note`, `Tells`), and records all it has noted at once (`Record`) or drops it
(`Finish`); an info of which something is noted is not deregistered before.
Between note and record the index data of an entry may change, as it may in the
code. `IndexStore!EachCommitIsWhole` says that `IndexStore` implements it, with
`spentInfo` and `spentData` mapped to the ids below the sequences, `open` to the
executions of open runs and `noted` to the entries of open transactions; reads,
locks and the loss of a transaction without a run are stutters.

### SyncManager: a run on the shared executor

A run of `Run` is a call of `syncIndexDataList` (units are the fetch targets) or
`syncIndexInfos` (units are the pages; the caller fetches the first itself, unit
0). `outcome` is what became of each fetch, `saving`, `saved` and `recorded` what
of its result is committed; `queue`, `busy` and `threads` are the
`ThreadPoolTaskExecutor`, `open` the outer transactions that hold a database
connection. `capacity`, `connections` and `units` are given when a behaviour
begins and never change.

| code | actions |
|---|---|
| `executeSync`, `fetchPagesAsync` up to the loop | `StartData`, `StartInfos` |
| `fetchAsync`, `fetchPageAsync` on the executor | `Submit` (`StartThread`, `Enqueue`, `Reject`), `Take`, `Finish` |
| `allOf(..).join()` | `Join` |
| `indexDataSaveAll`, `indexInfoSaveAll` | `BeginSave` (outer connection), `SaveOne` (a second one, for one commit), `SaveFails`, `Record` |
| HikariCP's connection timeout | `ConnectionTimeout` |
| process | `Crash` |

The items of a unit are there or not. An executor creates threads up to its core
size before it queues, which decides when a rejection comes. `SaveFails` also
stands for an item that cannot be parsed. A save that finds no connection free
waits; while every open transaction waits for its second one, only the timeout of
the pool ends it (`"starved"`). A `REQUIRES_NEW` commit takes its connection and
gives it back in one step.

### SyncLog: what a call promises

Rows of the units are committed one at a time, the history catches up with all of
them in one step, and a call that returns leaves nothing behind of which the
history does not tell; one that fails may leave rows without history. Batches,
executor, connections and the crash are hidden; `SyncManager!Promise` is the
refinement (status from `pc`, the others as they are).

### PageFetch: reading a growing listing

`listing` is what the API lists now, an item an identity, an index and a date
(`NoDate` for a blank `basDt`). `FirstPage` fixes the number of pages;
`NextPage` is `fetchStockMarketIndexes`, one page after the other; `ReadPage` and
`Join` are `fetchPagesAsync`, the pages of a batch in any order and merged in the
order of pages by `selectLatest`. `seen` records what was on the pages read. The
API (external) answers a request from the listing it has then, and inserts new
items at one end of it. That `AutoSync` takes a whole response at one moment is
right as long as a target has one page (5000 rows), and with more pages by
`NoneMissed` if the API lists the newest item last.

### AutoSync: from where a night resumes

`stored` are the base dates with a row, per index; `published` those the API
has; a run has begun (`asked`: the dates its request of an index matches), holds
what it fetched (`left`) and saves it date by date. `StartNightly` is
`AutoSyncScheduler.syncEnabledIndexData` with its filter (`Due`) and
`createSyncCommand` (`ResumeDates`), `NothingDue` its early return,
`StartManual` the request of a user. `Fetch`, `Join`, `SaveOne`, `Finish` and
`Stop` are the run; its pool and batches are `SyncManager`'s, so here a run is
one batch. `excused` and `lost` are ghosts: dates users made gaps of, and dates
a stopped run had fetched and never committed. The API (external) publishes the
dates of an index in order and none before its day; `OldestFirst` is the set of
indices whose response it lists with the oldest date first. No document fixes
the order, so the proof is for every such set and the run has one index of each.

### CursorSearch: page after page

One client follows `nextCursor` from the first page to the last in one of the
four searches. `query` is its request, `table` the rows as (sort key, matches the
filter, attached to a live info), `cursor` and `hasNext` what it got last.
`AskPage` is the page query with `size + 1` rows, `CountTotal` the count query
after it; `Insert`, `Change`, `Delete` and `Detach` are other threads between the
requests. The 21 sort fields compare in three ways (`KeysetAfter` for values,
`NullableAfter` for target dates, `EnabledAfter` for booleans), NULL sorts as the
largest as in PostgreSQL, and a blank direction means what each search makes of
it. Requests that are refused (unknown field or direction, malformed cursor) are
left out: they change nothing and get no page.

### WebList: a list page of the client

`list` is the store of one page, `load` the GET under way (the store has one flag
for it), `calls` the POST, PATCH and DELETE requests under way, `table` the
server. `Fetch` is `fetch` of the stores with its early return, which every
change of the filters, opening and finished request runs; `FetchNext` is the
sentinel. A request lives in three steps: `Serve` or `Apply` at the server,
`Deliver` or `Done` at the client, `LoadFails`, `Refused` or `CallFails` instead
of them, so an answer may be of rows and filters that have changed and a request
the server has carried out may fail at the client. `OpenPage` has the four pages'
effects, which differ in when they reset the filters; the sync job page opens as
the index data page does. A row has a sort key and a tag (`Content`); `Place` is
where it is listed, the key and then the row, which is what a cursor is a copy
of. An edit (`SendChange`) changes key, tag or both, as the forms of the index
data and index info pages change the columns these pages sort by, so a row may
move past a cursor; the switch of the auto-sync page changes the tag alone.

Filters are reduced to the tags they let through and a direction, and one column
is sorted by throughout. `Row` is what a row is about and breaks ties; the code
breaks them by the id, which a row created again after its deletion has anew, so
such a row may come back among equal keys at a place the code would not give it.
That an edit changes what the filters of the index data page see (they are on
index and date) is more than the form can do. Both only add behaviours. `Input`
bounds what is filled into a form. `origin` and `missed` are ghosts: of which
filters the rows are, and whether the last refresh was skipped or failed, or an
undo restored what the server no longer has. The server's search is
`CursorSearch`'s, from one state of the table.

## Runs

| run | instance | shows |
|---|---|---|
| `store_races` | 3 threads, 1 name with a padded spelling, 1 date, 4 calls, 1 abort; threads symmetric | the invariants and step properties of the tables under every interleaving of four calls, and the refinement of `AtomicStore` |
| `store_syncs` | 2 threads, 2 names, 3 calls, 1 abort, fair | runs of one and of two batches: the history of an execution grows by whole batches and is kept; and `CallsEnd`: every call ends, crossed locks included |
| `store_userdata` | 2 threads, 1 name, 1 date | violated: a sync overwrites a user change committed after its read |
| `manager_runs` | an info and a data run of 0, 2 or 3 units, batches of 2, 1 thread, a queue of 1 and 2 connections or a queue of 4 and 3 connections, 1 crash, fair | what returns is whole, the history has no hole, executor and connections suffice where they should, every run ends, and the refinement of `SyncLog` |
| `manager_failures` | two data runs, as above, a queue of 1 | violated: failed and rejected fetches leave no `sync_job` |
| `pages` | up to 4 items of 2 indices, 2 dates and blank, 1 or 2 rows a page, 2 items published meanwhile | page arithmetic, the newest item kept, what a shifting listing can cost |
| `nightly` | 2 indices, one listed oldest first and one newest first, a nightly and a manual run, 2 days, 1 user edit, 1 failure, fair | no gap but those of users and of dates held or lost behind a newer one; a night takes up every newer published date and does not end before it is stored, overtaken or failed; and every published date is caught up with |
| `nightly_range` | 1 index, a manual run, 3 days | violated: a sync saves dates after its `baseDateTo` |
| `search_pages` | all four searches, fields and directions, every table of 3 rows, sizes 1 and 2, 2 writes | order, no duplicates, stable rows shown, honest hasNext and total, for all rows a cursor can reach |
| `search_jobpages` | sync jobs | violated: hasNext promises an empty page behind jobs without a target date |
| `web_list` | an index data, index info or auto-sync page, 2 rows, 2 sort keys, pages of 1, 2 filters, 4 user actions, 2 requests at once, 1 failure, fair | what a quiet list shows, rows in order though edits move them, every load ends, every row comes |
| `web_stale` | the auto-sync page, as above | violated: filters set while a page loads stand above rows of the old ones |

`IInv`, where a run has it, contains the module's `TypeOK`.

### Bounds, and why they are enough

- Store: three threads are what the longest chain of waits needs (an upsert, a
  delete and a writer of the same info). Four calls let an info be created and
  filled, read by a sync and deleted meanwhile; with the aborted transaction
  that is 1.2 million states. The id bounds are at least what that
  many calls can insert, so they never bind; `MaxRequests` bounds the calls and
  `MaxAborts` the failures. One name and one date put every call on the same
  rows, the padded spelling has a sync save a row its history does not find; the
  second name, so runs of two commands or two batches, is `store_syncs`.
- Manager: units 0, 2 and 3 with batches of 2 are no batch, a whole number of
  batches (which the loop follows with an empty one) and a last partial one. A
  queue of 1 rejects, a queue of 4 holds both runs' batches, the premise of
  `NoRejection`; 2 connections can be held by the 2 outer transactions, 3 are the
  premise of `NoStarvation`. The configured sizes (50, queue in
  `application.yaml`) differ in nothing the guards distinguish.
- Pages: four items are up to four pages, so a first page, a full batch and a
  partial one. Two items published meanwhile shift a listing by a page.
- Nightly: two days are enough for one date to come after another that was
  missed, three for one between two. `MaxEdits` counts user calls, `MaxFailures`
  failed fetches, failed saves and crashes together.
- Search: three rows are three pages of one or a full and a last page of two;
  two writes can remove the row of the cursor and insert before or after it.
- Web: two rows in pages of one are a first and a next page, and two sort keys
  let an edit move a row past a cursor. The table begins with two rows of the
  first key; three contents are what a form is filled with. Four actions are a
  page opened, filtered, changed and left, or two changes under way while the
  next page is; the actions of the network and of the sentinel are not bounded.

### Fairness

`FairSpec` of `IndexStore` has WF on every step of a started call: its thread is
scheduled, a lock is granted once it is free, and PostgreSQL's deadlock detector
rolls one of two crossed waits back. No call has to come. Weak fairness is
enough although a lock can be taken by others first, because the calls are
bounded. `SyncManager` has WF on the calling threads, on the workers, on the
end of each fetch, since `RestClientConfig` sets a connect and a read timeout,
and on `ConnectionTimeout`, since HikariCP gives up a wait after 30 seconds by
default; none on crashes. `AutoSync` has WF on `StartNightly` (the cron expression
fires each night) and on the steps of a run; the failures are bounded, and users,
the calendar and the API have to do nothing. `WebList` has WF on the server and on
the answers, since a browser ends every request one way or the other, and on
`FetchNext`, since the sentinel stays in view below a list that is not full;
users have to do nothing.

## Proofs

Seven modules prove, for every value of the constants that satisfies the named
assumptions of the modules:

| module | theorem | property |
|---|---|---|
| `IndexStoreProofs` | `Invariant`, `TypeCorrect` | `IInv`, `TypeOK` |
| | `NamesUnique`, `KeysUnique` | `UniqueNames`, `UniqueKeys` |
| | `DataOwned`, `ConfigsMatch`, `ReferencesIntact` | `DataHasInfo`, `ConfigIffInfo`, `JobReferencesLive` |
| | `UpsertFindsItsRow`, `UserInfoSafe` | `UpsertedInfoStays`, `UserInfoUntouched` |
| | `SomebodyGoesOn` | `NoWaitForEver` (in no run) |
| `IndexCommitProofs` | `CommitInvariant` | the invariant `CInv` |
| | `Atomic` | `EachCommitIsWhole`: `IndexStore` implements `AtomicStore` |
| | `NothingComesBack`, `Sealed`, `UsersSwitch` | `NoResurrection`, `HistorySealed`, `EnabledOnlyByUser` |
| | `UserDataStays` | `UserDataSafe` (in no run) |
| `SyncManagerProofs` | `Invariant`, `TypeCorrect` | `IInv`, `TypeOK` |
| | `WaitedFor`, `Bounded`, `NeverRejected`, `NeverStarved` | `PendingInExecutor`, `ExecutorBounded`, `NoRejection`, `NoStarvation` |
| | `Complete`, `NoHole` | `ReturnedIsComplete`, `HistoryHasNoHole` |
| | `WorkersWork` | `NoneWaitsInVain` (in no run) |
| | `Implements` | `Promise`: `SyncManager` implements `SyncLog` |
| `PageFetchProofs` | `Invariant`, `AllRead`, `LastOnlyMissed` | `IInv`, `NoneMissed`, `OnlyTheLastMissed` |
| | `NewestKept` | `LatestIsNewest` |
| `AutoSyncProofs` | `Invariant`, `TypeCorrect`, `NoGap` | `IInv`, `TypeOK`, `GapFree` |
| | `HeldUntilStored` | `NightHoldsOn` |
| `CursorSearchProofs` | `Invariant`, `TypeCorrect` | `IInv`, `TypeOK` |
| | `Ordered`, `NothingMissed` | `PagesInOrder`, `StableRowsShown` |
| | `PromisedPage`, `TotalIsRight` | `NextPageExists`, `TotalElements` |
| `WebListProofs` | `Invariant`, `RowsInOrder` | `IInv`, `OneListing` |
| | `ListIsCurrent` | `ShownIsCurrent` |

Every safety property of a passing run is among them. `UserDataSafe`,
`NoWaitForEver` and `NoneWaitsInVain` are what remains true where a run shows a
violation only (`UserDataKept`) or checks liveness (`CallsEnd`, `RunsEnd`); no run
lists them.

Assumptions. `IndexStore`: `Strip` maps spellings to stripped ones and leaves
those alone, the bounds are naturals, the null values are no rows.
`SyncManager`: the runs are finitely many, their numbers of units are naturals,
pool, queue and connections are at least what the configuration validates.
`PageFetch`: a page and a batch hold at least one row and one page. `AutoSync`:
the bounds, and that `OldestFirst` is a set of indices and the scheduler's
thread serves no request. `CursorSearch`: the requests are well-formed, the
bounds, and that the nulls are no rows. `WebList`: finitely many rows and sort
keys, filters over the tags, the bounds, and that no answer and no load are
none. What PostgreSQL guarantees (unique and foreign keys, row locks, the
conflict clause) is in the guards of the actions, and what the API does in
`Publish`.

*IndexStore.* The unique keys hold at an insert because the index checks them
then; they survive because an upsert that found no row still has the name locked
at its commit (`UpsertedInfoStays`), which needs that two open upserts never hold
one name (`OneUpsertPerName`), that ids beyond the sequence are unused
(`IdsUnused`), and that the copy a PATCH writes back has the name and source of
the row it overwrites (`CopyOfSameRow`: neither ever changes). That copy is also
why `UserInfoUntouched` needs the clause on `figures` of a stale copy.
`DataHasInfo` rests on the foreign key check of the delete against rows inserted
after its bulk DELETE. `NoWaitForEver` orders the locks: rows are held by deletes,
which wait at most for the config of another delete; configs by deletes at their
end, which wait at most for a name; names by upserts, which wait at most for a
config, and then of the very delete that waits for them (`UpsertedInfoStays`
again), a pair the detector sees. The KEY SHARE lock of a history entry stops
deletes only, and its holder waits for nobody.

*Whole commits.* The refinement needs four facts more than `IInv`, together
`CInv`: what a delete holds for deletion belongs to its info or is gone
(`VictimsOfInfo`), one delete only is past the flush of a config (`DropsAlone`),
no two open runs have one execution and none has one of the future
(`ExecutionsDiffer`), and what a run has yet to record is not recorded, nor
noted twice (`EntriesAhead`): the history of its execution is of infos of
earlier batches, and the entries it has noted are of exactly the commands of
this batch it has done. That the info of a noted entry stays until the commit
(`NotedInfoStays` in `IInv`) is what the KEY SHARE lock is for. `Committed` then
says that every step of `IndexStore` is one operation of `AtomicStore` or leaves
the tables and the notes alone, action by action. Two step properties are read
off that: they hold of every operation of `AtomicStore`, so no interleaving can
break them (`NoResurrection`, `EnabledOnlyByUser`). `HistorySealed` needs
`EntriesAhead` besides: a commit adds what was noted, that is the batch and
nothing recorded before. The fourth, `UserDataSafe`, bounds the loss that
`store_userdata` shows: a thread comes to hold a row only by reading it as
OPEN_API (`Reads`), and a row gets that type only by the flush of a thread that
holds it (`Retypes`). So a user's change falls only to a sync that had read the
row before, and to none that comes later.

*SyncManager.* `join()` waits for what is pending, so the invariant has to know
where it is: a pending unit is queued or running, once, and nothing else is
(`PendingInExecutor` with the distinctness of the queue). Units before `from` are
decided and, once their batch is behind, recorded if they brought anything;
what is saved beyond the record belongs to the save in progress (`Kept`). From
the first follow the bounds on the executor: a run has at most one batch in it, so
pool and queue that hold a batch of every run never reject. From the second
follow `ReturnedIsComplete`, `HistoryHasNoHole` and the refinement of `SyncLog`,
in which `SaveOne` and `Record` are the operations and the executor is a stutter.
A save starves only if the outer transactions hold all connections, of which each
run has one (`NoStarvation`). Nobody waits in `join()` in vain: what is waited
for is with a worker or queued, and a task queues only behind a full pool
(`ExecutorBounded`), so there is a worker that has it or will take it. With
fairness that is why `RunsEnd` holds.

*PageFetch.* An item listed at first stands `Shift` places further back now
(`FirstStays`); the pages counted hold all places of the first listing
(`CountedPages`), and whatever stands before the next page has been read
(`Passed`), because a page read now has each item whose shifted place is on it. A
shift while pages are read only moves items on to pages still to come, except
off the last one. In parallel that argument needs a listing that does not shift.
`selectLatest` is a fold over the pages; the library's induction theorems cannot
be instantiated, so it is unfolded place by place: `Newest` (the map has of
every index seen an item as new as any) is kept by one item (`Keep`) and by one
page (`Merge`), and a least place at which it failed would contradict that. The
join of a batch keeps it page after page in the same way, in either order of
reading.

*AutoSync.* `GapFree` is about what is stored, and a run stores what it fetched
earlier for a request it made earlier still. `IInv` therefore says of all three
(stored, `asked`, `left`) that no date below one of theirs is missing unless it
is `Covered`: stored, made by a user, overtaken, or never published and never
to be, as a later one has been. A resuming request has nothing uncovered below
it because it begins at the newest stored date; one fetch keeps what its request
had; a save moves one date from `left` to `stored`; a lost run drops its
`left`, and only an API that lists newest first leaves a gap by that (`lost`).
The proof is for any set of indices listed oldest first. `NightHoldsOn` is
the safety half of `CatchUp`: a night asks for every date above the newest stored
one, so for every published one (`PublishedHasCome`: none is in the future); what
it asked for it waits for (`AskedIsWaited`), so it cannot finish before the fetch
has brought it, nor before it is saved. Fairness then has only to end the night.

*CursorSearch.* `Before` is a strict total order, and a page is the first `n` of
what was found, so it is empty only if nothing was found (`PageNotEmpty`, from
the well-foundedness of the naturals), and what is not on it comes after its
last row (`RestComesAfter`). So the next cursor has everything shown before it or
on it (`ShownIsPassed`) and everything left alone and not shown after it
(`RestIsAhead`); a write disturbs that for the row it writes only, the cursor
being a copied value. A cursor always has a key: a request whose last row has none
is refused. The three comparisons are that order between a cursor with a key and
a row with one (`AfterIsBefore`). A job without target date comes first in
descending order, so it is on the first page or the request fails; in ascending
order it comes last, where no comparison is true of it. These are the rows that
are not `Reachable`, the only ones `StableRowsShown` leaves out and the ones
`search_jobpages` is about. A page has no
more rows than its size (`PageFits`, by an injection into the places), so the
extra row of `hasNext` is not on it and found again (`PromisedIsThere`); the rows
shown and the rows counted are in bijection (`ShownIsThere`).

*WebList.* A search returns rows in order: a finite set of rows has an order for
each filter (`Sorted`, by rank: the number of rows before one), so an answer
continues the cursor it was asked with (`SearchFits`, `Continues`). What is asked
and what is shown may part in between: `GoesOn` says that the rows kept by a load
are in order and end at its cursor, if they are of one filter, and
`AnswerFits` that the answer still fits that cursor when it comes; so the two
joined are in order (`Joined`), whatever the list became meanwhile and wherever
an edit has moved a row on the server: the places shown are copies, and only an
answer brings new ones. That is also why `OneListing` is about places: a row
moved past the cursor comes again, with its new key. A switch and its undo change
no place (`Relabelled`).

That a quiet list is what the server has (`ShownIsCurrent`) rests on `Current`:
unless `missed`, either the request that changed the server last has still to be
followed by its fetch (`ToBeFetched`), or the load under way is asked with the
filters on show and its answer is what the server has now (`LoadIsCurrent`) and
so are the rows shown (`RowsAreCurrent`). `Apply` changes the server only into
the first state, and the fetch that follows `Done` leaves it by a new load or by
`missed`. Since a filter has one order of the rows, the answer after the last row
shown is the rest of the list, so pages joined are the whole. A row may differ
from the server's only while its switch is under way (`Switched`); an undo puts
back what it was, or is marked.

Only model-checked: the liveness properties (`CallsEnd`, `RunsEnd`, `CatchUp`,
`LoadsEnd`, `AllRowsCome`), which are out of reach of the prover. The violations
are TLC's by nature.

## Findings

1. `store_userdata`: `updateByOpenApi` decides on the index type read at the
   start of its transaction and flushes every column, so a user change committed
   in between is lost, against the comment of that method.
2. `manager_failures`: a fetch that fails or is rejected is logged and filtered
   out, so no `sync_job` tells of it, against the team's description.
3. `nightly_range`: `baseDateTo` never reaches the API and nothing filters what
   comes back.
4. `search_jobpages`: jobs without a target date are beyond every cursor, so
   `hasNext` promises an empty page (ascending) or the request fails
   (descending).
5. `web_stale`: `fetch` returns early while a load is in flight and nothing
   repeats it, so filters set meanwhile stand above rows of the old ones.

Seen in the models or while writing them, and contrary to no document:

- A data sync stopped by an exception keeps the rows its batch had saved without
  a `sync_job`, and the history of its earlier batches under its execution id; a
  SUCCESS can be committed for index data deleted after the statement that noted
  it; a padded name is saved under its stripped form and recorded as
  FAILED; a PATCH of an OPEN_API info writes back figures a sync refreshed
  meanwhile.
- With an API that lists new items first, an index-info run reading pages in
  parallel can miss any item for once.
- The page query of the sync jobs joins `index_info`, the count does not, so
  `totalElements` counts jobs of deleted infos that no page shows.
- The auto-sync page fetches with the filters of its last visit and resets them
  when it is too late. After a first page that failed, the sentinel asks for the
  next one with the new filters and the old cursor. A refetch after an edit is
  dropped while another load is in flight; if it is a next page and the edit has
  moved a row past its cursor, that row is shown twice, with the old key and the
  new. The undo of a switch can restore a
  value the server no longer has, or be lost in a page that captured the items
  before it. (The ghost `missed` marks these in `WebList`.)
- Left of the client unmodelled: the statistics of the sync page share the
  `error` of the list and take `content[0]` of a search that may be empty; the
  dashboard panels show whichever answer comes last.

## Not modelled, and why

- *Dashboard* (service and panels): read-only arithmetic over one snapshot of
  `index_data` (period performance, ranks, moving averages) in decimals rounded
  by `BigDecimal`. It keeps no state and meets no interleaving; unit tests over a
  table of figures reach what could be wrong there.
- *CSV export*, controllers, Swagger interfaces, mappers and the exception handler
  keep no state: layout, escaping and the translation of HTTP to the calls the
  models begin with.
- HTTP, JSON and the parsing of figures are I/O; a fetch brings items or fails.
- Audit columns, worker names and job times decide nothing.
- Of the bundle, React, the router and the HTTP client are there only as far as
  the list pages rest on them.

## Plan

Done, in this order, the most consequential state first: `IndexStore` and its
proofs, `SyncManager`, `AutoSync` and its proofs, `CursorSearch` and its proofs,
`PageFetch`; then the connection pool in `SyncManager`, the abstract
specifications `AtomicStore` and `SyncLog` with both refinements, `WebList`, and
the proofs about `SyncManager`, whole commits, pages, the searches' counts and
the web client's lists; then the last safety properties of the runs
(`LatestIsNewest`, `ShownIsCurrent`), the searches' properties for every row a
cursor can reach, the safety halves of `CatchUp`, `RunsEnd` and `CallsEnd`, and
what remains of `UserDataKept`.

What is left, least urgent last:

1. The safety halves of `LoadsEnd` and `AllRowsCome`.
2. What the other findings leave true, as `UserDataSafe` does for the first: of
   which filters a stale list is.
3. `Dashboard` as operators (nearest row on or before a date, rank, moving average)
   against reference definitions, if it ever keeps or caches a result.
