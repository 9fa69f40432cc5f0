# Assemblyline base: TLA+ models, checks and proofs

This directory models the parts of `assemblyline-base` that change shared state, and the algorithms whose
answers others rely on. Source paths are relative to `src/assemblyline/`.

`PROJECT.json` lists the components, the runs, the mutants of the code each property was tried on, the source
lines of each definition, the hazards and the theorems.

## 1. Inventory

Assemblyline is many processes (ingester, dispatcher, services, user interface, expiry, operators' commands)
that share an Elasticsearch datastore, Redis, and file stores. This repository is the library they have in
common; concurrency is between processes that call it, and nothing in it holds a transaction over two
documents.

| Component | State | Operations | Talks to |
|---|---|---|---|
| File records, `datastore/helper.py` | one document per sha256: `seen.count`, classification, expiry | `save_or_freshen_file` | collections |
| Submissions, `helper.py`, `bulk.py` | submission, result, error and file documents, cached trees, blobs | `delete_submission_tree`, `..._bulk` | collections, filestore |
| File trees, `helper.py` | cached trees of submissions | `get_or_create_file_tree`, `get_summary_from_keys` | collections |
| Bundles, `common/bundling.py` | none | `import_bundle`, `create_bundle` | collections, filestore |
| Collections, `datastore/collection.py`, `store.py` | hot and archive index per collection, `_seq_no` of documents, points in time | get, multiget, save, update, delete, by-query operations, search, deep paging | Elasticsearch |
| Archiving, `collection.py`, `common/archiving.py` | a document in one index or the other, the archive queue | `archive`, `archive_by_query`, `archive_submission` | Elasticsearch, Redis |
| Index maintenance, `collection.py` | Elasticsearch indexes, aliases, settings | `fix_shards`, `reindex`, `fix_replicas`, `restore_old_archive`, `_ensure_collection` | Elasticsearch |
| Filestore, `filestore/` | blobs in one or more transports | put, get, exists, delete, upload | transports |
| Cache store, `cachestore/` | blobs and `cached_file` documents | save, upload, touch, get, delete | filestore, collections |
| Filestore cleanup, `common/cleanup_filestore.py` | queues, counters and flags shared by processes | list, filter, erase | filestore, collections |
| Backup, `common/backupmanager.py` | two Redis queues, a Redis hash, files | backup, restore, workers, done thread | Redis, collections |
| Lock, `remote/datatypes/lock.py` | a key with a lease, a list of release tokens | acquire, release | Redis |
| Quotas, `user_quota_tracker.py` | a sorted set of start times per user | begin, end | Redis |
| Queues, `queues/` | lists and sorted sets | push, pop, unpush, dequeue_range, remove | Redis |
| Events, `events.py` | subscriptions | send, register | Redis |
| Exporting counters and metrics, `exporting_counter.py`, `common/metrics.py` | counters of a process | increment, export, stop | Redis |
| Actions, `common/postprocess.py` | table of actions and their compiled filters | load, process, hooks | Redis, collections |
| Classification engine, `common/classification.py` | definitions, a normalisation cache | normalise, min, max, intersect, is_accessible | - |
| Ranges, `common/iprange.py` | a trie of values | add, look up | - |
| Caches, heuristics, identification, factories, object model, helpers | local | computation | - |

What is hard, per component, and what makes it correct:

* *File records.* Every process that meets a file freshens its record. Two may read the same version; a
  request may time out after Elasticsearch executed it; the record may be deleted in between. Correct: no
  sighting is lost, the classification is the least restrictive, records never go back, calls return.
* *Deleting submissions.* There is no reference count: a file goes when a search finds it in fewer than two
  submissions. The search sees the last refresh, other deletions and imports run meanwhile, and the deletion
  is dozens of requests without a transaction. Correct: submissions that stay keep their files and stay
  readable; nothing is left of those that go; nobody gets to read more than before.
* *Archiving.* A document is in two indexes, then in one; saves, deletions and lookups go on meanwhile.
  Correct: a lookup never misses a document that exists throughout.
* *Filestore.* One transport may raise, and others put and delete the same name. Correct: a put that returned
  has left the whole file everywhere.
* *Filestore cleanup.* Workers in a pipeline stop on a timeout, on a flag of the stage before, or by an
  exception; files are stored while it runs. Correct: nothing with an entry is erased, names add up, it ends.
* *Backup.* Workers feed the queue they read from, and stop tokens travel in it. Correct: nothing found is
  left out, tokens are not lost, the backup returns.
* *Index maintenance.* A command blocks writes for everybody, renames an index in many requests, and may die
  between any two of them. Correct: no document is destroyed, writes come back, the end state is in order.
* *Reading page by page.* Pages end between documents with the same sort value. Correct: each document once.
* *File trees.* Files contain each other, also in circles; a cached tree outlives what it was built from.
  Correct: a tree said to be complete is.
* *Redis types.* `retry_call` sends a command again after a lost reply, so it may be executed twice. The
  lock's holder may outlive its lease; the quota does not know whose entry it removes; the order of the
  priority queue is kept in the text of its members; subscribers miss what is sent while they reconnect.
  Correct: exclusion within the lease, hand-over, bounds, nothing lost, rules that end up current.
* *Exporting counters.* Two exporters and the end of a process race with counting threads. Correct: everything
  counted is in one place.
* *Post-processing.* A completed submission may be submitted again, and comes back. Correct: it ends, and what
  was to be archived is.
* *Classification.* Rules add markings after groups were joined or intersected. Correct: readers do not gain
  by a maximum nor lose by a minimum.

## 2. Modules

| Module | Models | Extended by |
|---|---|---|
| `FileFreshen` | `save_or_freshen_file`, `_get`, `save` with a version, `update`, `with_retries` | `MCFileFreshen`, `FileFreshenProofs` |
| `FileLedger` | what `save_or_freshen_file` promises: an atomic ledger of sightings | instantiated by `FileFreshen` |
| `SubmissionTree` | both tree deletions, `import_bundle`, the readers that make and save file trees, the refreshes of the indexes | `MCSubmissionTree`, `SubmissionTreeProofs` |
| `FilestoreCleanup` | the four kinds of processes of the cleanup and `CacheStore.save` | `FilestoreCleanupProofs` |
| `DistributedBackup` | `backup`, `backup_worker`, `done_thread`, `cleanup`, the queues they use | `MCDistributedBackup`, `BackupProofs` |
| `IndexMaintenance` | `fix_shards`, `reindex`, `save`, the operator's repetitions | `MCIndexMaintenance`, by it `MCStorage` and `MaintenanceProofs` |
| `ArchiveMove` | `archive`, `archive_by_query`, `_delete_async`, and `_get`, `save`, `delete` through two indexes | `MCStorage` |
| `FileTransports` | `FileStore.put`, `delete`, `TransportLocal.put` | `MCStorage` |
| `DeepPaging` | `search` with a deep paging id, `scan_with_search_after` | `MCStorage` |
| `FileTree` | `get_or_create_file_tree`, `_is_valid_tree`, the cached tree | `MCFileTree`, by it `MCStorage` |
| `RangeTable` | `RangeTable` of `iprange.py` | `MCStorage`, `RangeProofs` |
| `Markings` | `normalize_classification` on parts, `max_`, `min_`, `build_user_`, `intersect_user_classification`, `is_accessible`, the cache of normalised texts | `MCMarkings`, by it `MCStorage` |
| `RedisLock` | `Lock` | `MCWorkers` |
| `UserQuota` | `UserQuotaTracker` | `MCWorkers` |
| `PriorityQueue` | `PriorityQueue` | `MCWorkers` |
| `RuleReload` | loading of rules by `ActionWorker`, `EventSender`, `EventWatcher` | `MCWorkers` |
| `ExportingCounter` | `AutoExportingCounters` under `MetricsFactory` | `MCWorkers` |
| `PostProcess` | `ActionWorker.process`, `ArchiveManager.archive_submission` | `MCWorkers` |

`StorageProofs` extends `MCStorage`, `MaintenanceProofs` and `RangeProofs`, and `WorkerProofs` extends
`MCWorkers`: they hold the theorems about each of the machines and about the machines side by side. No module
declares a RECURSIVE operator; what the code does by recursion or in a loop is a recursive function.

Each module says at its head what a step is. The common conventions:

* A step is one request to a remote store, or all the local computation between two requests. `pc`-like
  variables are named for the place in the code; local variables of the code keep their names or are explained
  where they are declared. The small machines prefix their names (`arc`, `lock`, `pq`, ...), so that one
  module can extend several.
* A classification is the set of markings a reader must hold. `min_classification` is then the intersection
  and `max_classification` the union; the empty set is UNRESTRICTED. `Markings` alone looks inside: it has the
  level, required tokens, groups and subgroups, with the rules that add some for others.
* An expiry is a natural number, or `Never` for None.
* A lost reply of Redis is an action of its own, `...Unheard`: the command is executed, and the caller, in
  `retry_call`, is where it was and will send it again.
* A definition followed by "Fault" in its comment is not part of the specification: it is what a plausible
  mistake in the next definition would look like, and the corresponding run then fails.

### FileFreshen

`hot` is the record in the hot index with its `_seq_no` in `hotVer`, `arch` the one in the archive. A call
reads (`Get`: classification, choice between update and save, helper.py:1154-1178) and leaves a request on the
`wire`; Elasticsearch executes it at any later time (`UpdateApplied`, `UpdateMissing`, `UpdateRefused`,
`SaveAccepted`, `SaveConflict`). `Resend` is `with_retries` after a ConnectionTimeout: the first copy stays on
the wire. A request whose answer was lost is not distinguished from one that is executed late. `counted` is
history: the requests counted in the document that is stored now.

### SubmissionTree

A submission is its set of files and a classification; `rec`, `res` and `blob` are the file record, the
results (with errors) and the content of each file, `visible` the submissions a search finds, `Refresh` makes
it up to date. A deletion goes through its loops file by file, in any order, because the code iterates over
sets.

A reader reads the submission (`ReadSubmission`), makes its tree later (`MakeTree`) and saves it later still
(`SaveTree`), without looking at the submission again. `trees` are those saved, `found` those that a search
finds since the last `RefreshTrees`; a deletion looks for them once (`FindTrees`, in bulk `Start`) and deletes
what it found (`DeleteTrees`). `missed` is history: trees that were there and not found by a search of the
deletion, were saved after it, or were left by a deletion that died after `submission.delete`.

Some places join what the code does in several requests: `ApplyPlan` takes the bulk requests of
`multi_index_bulk` as one step; the results of a file are erased and reclassified together, with one
classification that is taken when they are fixed, where the code goes by what its search returned
(helper.py:426-433; no property depends on it); `FixSupp` gets and updates all supplementary files of a file
(helper.py:443-450); `MakeTree` reads the records and results of a tree. In an import the check for the
submission, its save, each file's record and blob, and the results are steps of their own, and `ImportBlob`
may store nothing, since the IOError of an upload is passed over (bundling.py:331). `Crash` puts a deletion
back to its start, as the command line's retry does; deletion is run with a transport and `cleanup=True`.

### FilestoreCleanup

Queues are sets (their order is irrelevant, their limits are not). A worker that finds its queue empty is at
"empty" after the `get` timed out, and then reads the flag or the counter of the stage before it
(`FilterCheck`, `EraseCheck`). `FilterStops` is the `finally` clause. A failing worker keeps nothing: the name
it held is in `failed`. `SaveRecord`, `SaveExists`, `SavePut`, `SaveVerify` are `CacheStore.save` for a name.

### DistributedBackup

`workerQueue` and `doneQueue` are the two Redis lists, `hash` the set of keys already asked for. A worker pops
a document, a stop token or nothing; a token is taken as its own only when the queue is empty, otherwise it
goes back (`Requeue`). The documents follow each other by `Refs`. With `Threads` the workers are threads,
which survive `cleanup`, otherwise processes, which `Terminate` ends. Redis loses no replies here: a BLPOP or
RPUSH that `retry_call` sends twice, after which a document or token would be gone or there twice, is left
out.

### IndexMaintenance

For each index there may be the index itself ("hot"), its `__fix_shards` copy ("fix") and its `__reindex` copy
("re"), with documents, shards, replicas, a write block and an allocation pin; `alias` is the set of those
under the alias. Actions are named `Fix...` and `Re...` after the command and are in the order of the code.
`unseen` are the documents of the index that no search finds yet (`RefreshIndex` ends that): `ReCopy` does not
copy them, since `reindex` copies what a search of the index finds and refreshes the copy only
(collection.py:739, 744). `autoCreate` is Elasticsearch's `action.auto_create_index`: a document saved while
the index is away creates it anew. A save that is refused (403) is a save that does not happen. The repetition
of a command that raised or died is the operator's.

### ArchiveMove

`arcHot` and `arcArchive` hold the version each index has of a key, `arcSeen` the hot index as searches see it
since the last `Refresh`. `archive` is `ArchiveExists`, `ArchiveGet`, `ArchiveSave`, `ArchiveDelete`, one
request each; `archive_by_query` copies what its query finds document by document (`CopyOne`, `CopyFails`),
and then runs the query again for the deletion (`Matched` is what the two find, `KeepMatched` ends the job).
`ReadIndex` asks the hot index and then the archive. `EraseHot`, `EraseArchive` are `delete`, which does both.
`arcGap` is history: the keys to which the deletion of an archiving may do what its copy did not, and those
saved while a `delete` had erased them from the hot index only, which then takes the archive's copy;
`arcLatest` is what should be there.

### FileTransports

One file; `fsFile` is what each transport has of it, `fsWhole` whether all of it. `put` goes through the
transports in order: `Skip` one that has the file, `WriteTemporary` and `Rename` on a local one or a single
write elsewhere, `Verify`, and `PutRaises` at a fault. `DeleteAt` swallows faults. `fsDone` remembers what a
returned put left, until a deletion or a forced put with another content clashes with it.

### DeepPaging

`OpenPit` takes the snapshot, `NextPage` reads the first of the hits after the last sort values (`HitsAfter`,
`FirstHits`, in the order of `SortsBefore`, whose last criterion is `_shard_doc`) and closes the snapshot when
the page is not full (`Ends`). `ChangeIndex` is everybody else, `PitExpires` the keep-alive.

### FileTree

`SubmitFiles` and `Complete` make the submission, with files that extracted others, of which some have
results, some errors and some neither. `SaveResult` is the import of another submission's bundle that has the
same result, `Delete` the deletion of the submission, which may not find its tree; after it the submission may
be imported anew. A tree gives, for each of its places, named by the files on the way to it, whether a child
was left out there. `ProcessFile` is the recursion of `get_or_create_file_tree`, a function of the levels that
are left, of the file and of the files met so far (`tree_cache`): `Node` puts a file above its `Children`,
`Child` leaves out what was met, `Enter` adds the rest.

`GetFromCache` and `CreateTree` are the two ways to answer; a call is one step, and its requests beside a
deletion are those of `SubmissionTree`. `CreateTree` takes the records that are gone, those the user may not
see, and the lost results. A record that is gone of a file the submission names makes the tree partial; of a
file without result or error, which is only looked up in the walk, it makes the call raise (section 6). Such a
file is not asked whether the user may see it either (helper.py:656-658). `Built` keeps with a tree the files
that there were when it was built, and whether anything has changed since, for the property only.

### RangeTable, Markings

Algorithms, as operators; an action applies them to inputs that TLC enumerates, and the invariant compares
with a definition of the answer. The trie of the ranges gives the entries by the paths to them, an entry being
a value or `RtDict`. `AddRange` cuts a range into blocks (`NextLength`), `AddBlock` and `AddPath` walk and
split the trie, `FollowPath` is the lookup, `Clear` forgets all; a byte has `RtBase` values.

A marking is a classification as it is written, taken apart. `ApplyRules` is
`_get_normalized_classification_text`. `Normalize` is `normalize_classification`, which applies the rules only
to what is not in its cache: `Cached` holds what is `Listed` at the start (classification.py:76-79, all
combinations but those of subgroups without groups, for which another spelling is listed) and what
`NormalizeText` has added since. `MaxClassification` and the others normalise their arguments and apply the
rules to the result. `Consider` picks two classifications; the property is about all users.

### RedisLock, UserQuota, PriorityQueue

A client of the lock is at "acquiring", "waiting", "inside" or "releasing" (`lockPc`); `lockHolder` is the
key, which `LeaseEnds` removes, and `lockReleased` the number of tokens in the release list, which
`TokensExpire` removes. `lockLate` remembers whose lease ended under it. `Die` leaves what the client held.
The quota's `Begin(h)` takes place when what started up to `h` has timed out; `End(s)` removes `Popped`, the
oldest entry, whoever s is. `quotaExtra` counts the entries that late and repeated ends removed. A member of
the queue is named by the push that made it (`pqPushes`), which stands for its text: `Before` is the order of
rank and text. The rank is priority and vip, and the time in the text (priority.py:98) is the order of the
pushes: a clock that steps back is left out. What a pop took whose reply was lost counts as handed out. `Push`
is the command of an open call; `Pop`, `Unpush`, `DequeueRange` and `RemoveValue` take members out.

### RuleReload, ExportingCounter, PostProcess

An edit is `SaveEntry`, `PutRules`, `SendEvent`; a process loads (`ReadRules`, `SwapRules`) at its start, then
`Register`s, and loads again at each event (`HandleEvent`) in the watcher's thread, which may lose its
connection (`Disconnect`, `Reconnect`) or die. A counter is copied and reset under the lock (`StartExport`)
and published later, heard, unheard or failing; `Stop` is the second exporter, `Exit` the end of the process.
A submission under way is the services it selected, those selected by default when it is submitted again, and
its wishes; `Process` is all that happens when it completes, in one step: the alert, the archive or a new
submission for it, the resubmissions. There is a scheduler and a client to submit with, and it does not raise
(archiving.py:65); without them `archive_submission` answers None, and `process` raises a TypeError after the
alert (postprocess.py:785).

## 3. Runs

| Run | Instance | Shows |
|---|---|---|
| `freshen_delete` | 2 calls, 1 resend each, 1 deletion, one marking | `CountIsSightings`, `FreshenMonotone`, `EveryCallReturns` |
| `freshen_retry` | 2 calls, 1 resend each, 2 markings, 2 expiries, no deletion | `NoLostSighting`, `ClassificationIsLeast`, and that the code implements `FileLedger` (`LedgerSpec`) |
| `freshen_archived` | a record that is only in the archive | violation of `EveryCallReturns`: the version of the archived document never fits the hot index |
| `tree_shared` | A and B deleted at once, B in bulk, C stays; the trees of A and B asked for; one crash | `StayingComplete`, `StayingReadable`, `FindableTreesDeleted` |
| `tree_solo` | A deleted, B stays, C imported meanwhile; one crash | `NothingOrphaned`, `ExactlyReclassified`, `DeletionCompletes` |
| `tree_twice` | A deleted by two processes | violation of `StayingComplete` |
| `cleanup` | 3 names: recorded, orphan, being stored; 2 filter and 2 erase workers, queues of 1, 1 failure | `RecordedKept`, `NewFilesKept`, `NamesAddUp`, `CleanupReturns` |
| `cleanup_entry` | an orphan stored again during the cleanup | violation of `EntriesKept`: the entry appears between lookup and erasure |
| `backup` | 4 documents in 2 buckets (one gone), 2 threads, 1 error in a document and 1 in a bucket | `BackupComplete`, `TokensConserved`, `BackupReturns` |
| `backup_bucket` | the same with processes | violation of `BackupReturns` |
| `maintenance` | `MCStorage`: seven machines side by side | `SavedKept`, `FixRestores`, `NothingLate`, `WritesComeBack` of `IndexMaintenance`; `ReadersFind` of `ArchiveMove`; `PutsStay` of `FileTransports`; `PagesWhole` of `DeepPaging`; `TreeWhole` of `FileTree`; `RangesAgree` of `RangeTable`; `ReadersAgree` of `Markings` |
| `workers` | `MCWorkers`: six machines side by side | `LockExclusive`, `LockServes` of `RedisLock`; `QuotaHolds` of `UserQuota`; `PqAccounted`, `PqInOrder` of `PriorityQueue`; `RulesCurrent` of `RuleReload`; `CountsConserved` of `ExportingCounter`; `ArchiveKept`, `ResubmissionsEnd` of `PostProcess` |

In `maintenance` and `workers` the variable `part` says at the start which machine runs in a behaviour; the
others rest. The machines share no state in the code either, so their product would show nothing more. A
resting machine disables all its actions, so its fairness asks for nothing. `StorageTypeOK` is the type
invariant of the machines around the stores together; that of the workers' machines (`WorkersTypeOK`), those
of the other modules and the inductive invariants are proved (section 5) and not run.

The bounds and why they suffice for what the runs ask:

* `Calls`: two calls with a resend each are up to four requests on one document: a stale save after a
  deletion, an update that arrives after its save, two saves of the same version. Deletions and resends are
  bounded by `MaxDeletes` and `MaxResends`, in guards.
* `Sids`, `Files`: three submissions are the least in which a file is shared by one that goes, one that goes
  at the same time and one that stays. Four files: in all three, in two, in one, and supplementary. The
  classifications in `tree_shared` put the one that stays between the two others, those in `tree_solo` make
  the deleted and the arriving one incomparable, so that each property can fail.
* Queues of size 1 in `cleanup` make both `put`s block; two workers per stage make one stop while the other
  works.
* `MaxFailures`, `MaxErrors`, `MaxBucketErrors`, `MaxCrashes`, `MaxFsFaults` are 1: one failure or crash at
  any place.
* `MaxCommands` = 3 gives every order of three commands after each other: what a `fix_shards` that died
  leaves, a reindex over it, and the next `fix_shards`. A hot index to shrink, an archive to split or refuse,
  auto-creation of indexes on or off.
* `ArcDocs`: two documents, so that a by-query archiving copies one before the other, and `max_docs` of 1 is
  fewer than match. Versions 1 and 2 match the query. Two archivings in a row give the older copy in the
  archive.
* `FileTransports`: two transports, of which the first is local; two clients, three calls, forced or not.
* `DeepPaging`: five documents with two sort values, pages of 1 to 3: pages end within a value, between
  values, and exactly at the end.
* `FileTree`: three files, two submitted; each extracts nothing, the third, or the third and the second,
  circles included; any of them with a result, an error or neither; one record gone, forbidden or one result
  lost; depth 1 cuts, depth 3 does not. One file scores and the others do not, so that a cached tree may be
  valid or not.
* `RangeTable`: two bytes of four values; two ranges with ends at, next to, and between the boundaries of
  blocks. The trie of the code has four levels of 256; two levels give a level that is the first and one that
  is the last, and a range that needs both.
* `Markings`: two levels, a token that raises the level, two groups (one added by itself), two subgroups (one
  requires a group); all pairs of classifications with all users, and a spelling that the cache does not hold
  at the start normalised before or not.
* `RedisLock`: three clients, so that one waits while two change places, four entries, one lost reply.
* `UserQuota`: a quota of 2 and six begins: sessions that time out, end late, and end while others time out;
  two lost replies.
* `PriorityQueue`: two producers, two priorities and both vips, three pushes, one lost reply.
* `RuleReload`: four edits, two faults: an edit while the process loads, one while it is disconnected, one
  after.
* `ExportingCounter`: four counted, steps of 1 and 2, one repeated export and the stop beside it.
* `PostProcess`: two actions that ask for each other's service, one of them by its category, one action that
  archives, three selections, and an archive that requires a category and a service.

The violations are of behaviour the repository states (see "findings" in `PROJECT.json` for the quotations).
`CHECK_DEADLOCK FALSE` is set in `workers`, where the bounds are used up, and in `backup_bucket`, which waits
for ever.

## 4. Fairness

* *FileFreshen*: weak fairness of each call's next read and of the execution of the request it waits for. The
  client repeats a request that times out without a limit (`with_retries`), so the request is executed in the
  end. Nothing is assumed of requests given up, of resends and of deletions. That calls return for a bounded
  number of resends and deletions also uses that a conflict means that another call made progress.
* *SubmissionTree*: weak fairness of each deletion: the process runs, and after a crash it is asked for again
  (bounded number of crashes).
* *FilestoreCleanup*: weak fairness of each process; a full queue blocks its writer only until a reader takes
  something.
* *DistributedBackup*: weak fairness of every thread, and strong fairness of a worker's taking a stop token.
  Redis serves a blocked BLPOP to the client that waits longest, and a worker that puts a token back waits
  behind all others, so no worker is passed over for ever.
* *IndexMaintenance*: weak fairness of the command's steps and of its repetition. That the operator repeats a
  command that did not end is an assumption about people, and `WritesComeBack` depends on it.
* *RedisLock* (`LockFairness`): a lease ends, and a client that is in `__enter__` or `__exit__` goes on.
  Nothing is assumed of the work inside, which may go on for ever, nor that anybody calls `__enter__`, nor
  that tokens expire. `WaitTimesOut` is the timeout of the blocking pop (lock.py:40), without which a lost
  token would leave the waiters waiting.
* *PostProcess* (`PpFairness`): every submission completes and is processed. Completion is the dispatcher's,
  outside of `src/`.

The other machines have no liveness property and no fairness.

## 5. Proofs

The proof modules hold theorems for all values of the constants, subject only to the named assumptions in the
modules and the hypotheses given here.

**FileFreshenProofs.** `TypeCorrect` and `NothingLost` (`NoLostSighting`) hold of every behaviour.
`FreshenInvariant`, with its corollaries `CountExact` and `NeverBackwards`, needs `~Archived`: with an
archived copy the code does not return (run `freshen_archived`). `CountIsSightings` is not inductive: a save
on the wire writes a count computed earlier. `FreshenInv` adds that requests are told apart by call and try
(`WireInv`, `CountedInv`), that a save that would be accepted carries the stored record, as it is now,
freshened by its call (`SaveInv`), and that a call whose update is on its way knows the record that its
version stands for (`BaseInv`), since it falls back to it. `LedgerInvariant`, `LeastRestricted` and
`ImplementsLedger` need in addition that no deletion happens (`MaxDeletes = 0`) and that all expiries are
dates (`DatesOnly`); `LedgerInv` adds that what a call knows of the classification stays between the stored
one and its own. The refinement maps `hot` to the ledger's entry and the calls that are done to `returned`.

**SubmissionTreeProofs.** `TreeTypeCorrect` holds of every behaviour. `TreeInvariant`, with `StayingUntouched`
and `StayingStaysReadable`, needs `Separate`: each submission is deleted by one process, nothing is imported
meanwhile, and supplementary files belong to one file. Each hypothesis is needed; section 6 has what happens
otherwise. The invariant says that what a deletion is about to erase is needed by its own submission only, and
that what it is about to write, now or in its plan, is open enough for all others. It rests on `subs \subseteq
visible`: a search may find submissions that are gone but misses none, because none arrives. Any number of
deletions, files, crashes and stale searches is covered.

**FilestoreCleanupProofs.** `CleanupTypeCorrect`, `CleanupInvariant` (`KeepInv`), `RecordedStay` and
`NewFilesStay` hold of every behaviour, for any number of workers, any queue sizes and any failures. Type
correctness needs `RunningInv`, the flag of the filter workers counts those that have not stopped: that it
does not go below zero is a fact about the `finally` clauses. `KeepInv` follows a name from the listing
through both lookups: a new file is listed after it got its entry, and a name with an entry fails one of the
lookups. `CleanupAddsUp` (`NamesAddUp`) needs that a listed name is in one place, and with one worker
(`PlacesInv`): in a queue, in the hands of a worker, or lost with a failed one. Then what a worker adds to its
total leaves `Pending`, and a sum over the workers changes by one summand (`AddsUp`).

**WorkerProofs.** All hold of every behaviour. `LockInvariant` and `LockExcludes`: who is inside and within
the lease is the holder on the server (`LockHeld`); only the holder's script deletes the key, and acquiring
needs that there is none. `QuotaKept`: the entries left are not those of the sessions left, so the bound on
the entries says nothing of the sessions by itself. `QuotaCovered` compares the two counts from every moment
on since the last purge. When `end` takes an entry that is younger than the session it ends, all entries are,
and the count from just before that session had one to spare. `CountersConserve` needs that an exporter that
is not exporting holds nothing (`HandsEmpty`). `RulesStayCurrent` needs that before the process has
registered, what it has read and is no longer stored will be read again, or an event was missed (`BootInv`).
`PushesAccounted` and `PushesInOrder` need that while a push has not returned, each copy that is in the queue
or was handed out comes from a repetition (`OpenUnheard`), and that it is the latest of its producer
(`OpenLatest`). `ArchiveAlwaysKept` needs that there is one submission that everything under way descends
from, and that all have its wish about deletion (`OneWish`). `WorkersTypeCorrect` (`WorkersTypeOK`, which no
run checks) is about the machines side by side: the one that runs keeps its invariant by the lemmas above, and
those that rest keep theirs because their state does not change.

**SubmissionTreeProofs, leftovers.** `NoFindableTreeStays` (`FindableTreesDeleted`) holds of every behaviour,
in bulk or not, with crashes and imports: a tree that a search finds for a deletion is on its list, a tree
that it does not find is in `missed`, and so is one that is saved after the search. `TreesDeleted` itself does
not hold (section 6). `NothingLeftOver` (`NothingOrphaned`) and `ReclassifiedExactly` are about a deletion
that is `Alone`; with two of them both fail (section 6). `OrphanInv` says that what a loop has passed is gone
or is another submission's, where another may be one that is imported meanwhile: since no other submission
goes, this stays true once it is. It needs that every file of the submission was either found elsewhere or is
going together with its supplementary files (`Settled`). A repetition after a crash finds these only while the
results are there, hence `Resumable`: no crash, the bulk variant, which erases no results before its plan, or
no supplementary files. `ClassInv` follows a file that others have from the list to the loop that classifies
it; its record, or the plan for it, has the class the others want when the loop has passed. The hypothesis is
that no submission has another's supplementary file as a file of its own, which would classify it twice.

**StorageProofs.** `ArchiveAlwaysKeeps` and `ReadersAlwaysFind` hold of every behaviour of `ArchiveMove`: what
an archiving is about to delete is in the archive, was erased, or is excused by `arcGap` (`KeyDeleteSafe`,
`QueryDeleteSafe`), and a lookup that asked the hot index in vain will find the document in the archive
(`ReadSafe`). `FsPutsStay` (`PutsStay`) for any transports, clients and faults: each transport that a put has
passed has the file, with its content when it was forced (`PutSoFar`), and nobody is on the way to undo what a
returned put left (`DoneApart`). `ReadersAlwaysAgree` (`ReadersAgree`) for any levels, tokens, groups and
subgroups, and whatever is in the cache: applying the rules closes a classification under what its markings
require, one that is `Settled` is closed already, and joining or intersecting closed ones keeps them
comparable. Without `Settled` the maximum fails (section 6), and so do the minimum and the
intersection of users; joined users see what either sees in any case. Its hypothesis `RequiredGroupsAuto` is
that the groups that subgroups require are selected automatically; `ReadersAgreeElse` says what holds without
it, and section 6 what does not.

**StorageProofs, paging and trees.** `PagesAreWhole` (`PagesWhole`), for any documents, keys, sizes of a page
and changes meanwhile: what was returned is the point in time without what comes after the last hit
(`PagesInv`), so that nothing is returned twice, and nothing is left when a page is not full. That a finite
set has first hits follows from the rank of each document. `TreesAreWhole` (`TreeWhole`), for any files,
extracted lists, results and depths, however the files contain each other, and whatever is lost, forbidden,
saved anew or deleted: what one file adds has each file in one place, none that was met before, and only files
that follow from it (`Adds`, and `Walked`, `Rooted` for the loops over children and roots). With as many
levels as there are files all of them are reached, because each level leaves fewer files unmet for the one
below. `TreeInv` adds that each tree in the cache is one of the files that there were when it was built, and
that those are the files of now as long as nothing was saved or deleted; that a valid one has as many files as
have results is what `_is_valid_tree` counts. The induction over levels and lists is one over natural numbers,
for a set instead of an operator (`AllNumbers`). `StorageTypesCorrect` (`StorageTypeOK`) is about the machines
side by side, from the invariants of all of them (`StorageInv`).

**RangeProofs.** `RangesTypeCorrect` and `RangesFound` (`RangesAgree`) hold of every behaviour, for addresses
of any number of bytes and bytes of any number of bits, any ranges, values and order. A round of `_add_range`
takes a block that is a power of two long and starts at a multiple of its length (`NextLength` ends, and the
block is in the range); such a block is made of whole entries of one level; splitting an entry changes no
lookup, storing one changes those below its path and no other (`Split`, `Store`, each with a lemma about
`Found`). The exception is the one in the property: after the range of all addresses, of which section 6 says
what happens, the lookups are wrong.

**BackupProofs.** `TokensAlwaysConserved`: there is no token anywhere while the main process still pushes
documents (`TokensLate`), which makes the last step, the token of a worker that puts it back, add up.
`BackupAlwaysComplete`: without an error in a bucket, every document found, and every key noted in the hash,
is in flight or handled until the thread is done, and while there are documents there is a worker that has not
stopped (`Underway`); the count of running workers is exact, so that the thread is done only when all are
(`AllDone`).

**MaintenanceProofs.** For any indexes, documents, target shards, commands and deaths.
`MaintenanceTypeCorrect` rests on what is under the alias being there, and on what is there at each place of
the code (`BaseInv`). `MaintenanceKeeps` (`SavedKept`): all that was saved, but for what is `late` (saved
beside a copy, or unseen by the one of `reindex`), is in the copy by `reindex`, or in the one by `fix_shards`,
or, when the latter is not there, in the index itself (`Somewhere`); the order matters, because the index may
be one that Elasticsearch has created anew. `MaintenanceNothingLate` (`NothingLate`): without deaths and
auto-creation, only the current index is not whole, and it has the shape of its place, write block included
(`CalmInv`). `MaintenanceRestores` (`FixRestores`): between commands each index is at rest, or has one of the
two shapes that a `fix_shards` takes up, "cloned" and "swapped"; within a `fix_shards` those it has finished
are in order (`RestoreInv`).

**Assumptions on constants.** They are named in the modules and TLC evaluates them in every run. Those that
the proofs made explicit: there are finitely many levels (`CmAssumption`), names and workers of the cleanup
(`CleanupAssumption`), documents that are read page by page (`PgAssumption`), files of a submission
(`FtAssumption`) and documents to archive (`ArcAssumption`); a byte has a power of two of values, and the mark
of a dictionary is no value (`RtAssumption`); the stop token is no document and there are documents
(`BackupAssumption`); the mark for an index that is not there is none (`AbsentAssumption`), and the indexes
come in a sequence; the names of files are none of the states of an import (`TreeAssumption`); bounds are
natural numbers.

Every safety property of a passing run is stated by a theorem. Only model-checked are the liveness properties,
since fairness and ENABLED are out of the prover's reach: `EveryCallReturns`, `DeletionCompletes`,
`CleanupReturns`, `BackupReturns`, `WritesComeBack`, `LockServes` and `ResubmissionsEnd`. The four violations
are counterexamples on small instances, which is all they need to be.

## 6. Known deviations that no run shows

Each can be reproduced by changing the constants named, or by checking the definition named, which is among
the properties of its module.

Records and submissions:

* *Null expiry.* `update` leaves out UPDATE_MAX for an expiry of None (helper.py:1175): a call without expiry
  that only updates a dated record does not make it live for ever, and a record whose expiry is None is given
  a date by a later dated update (`FileFreshen!NullExpiryKept`, with `CallExpiries = {1, Never}`).
* *Section images.* An update does not record that the file is now known as a section image
  (helper.py:1167-1176, `FileFreshen!SectionImageRecorded`).
* *Update after deletion and re-creation.* An update decided upon for one classification may be applied to a
  record created since with another (`FileFreshen!UpdateNeedsNoReclassification`, three calls, `MaxDeletes =
  1`).
* *Requests given up.* A request that the client gave up may be executed at any later time, also after a
  deletion.
* *Supplementary files.* A file named by a result as supplementary is erased with it without being searched
  for, also when other submissions need it (helper.py:386; `tree_shared` with `Supp <- SharedSupp`,
  `StayingComplete`).
* *Two deletions at once.* Both find a file they alone share in two submissions; neither erases it, and the
  last to write gives it the classification of a submission that is gone, or UNRESTRICTED when it finds none
  (helper.py:384, 418; `tree_solo` with two deleters, `NothingOrphaned`).
* *Crashes.* A deletion that dies after it erased the results no longer finds the supplementary files
  (helper.py:377; `tree_solo` with `PrivateSupp`). One that dies after `submission.delete` leaves the trees
  and summaries (helper.py:453), which `FindableTreesDeleted` counts among those it could not find.
* *Late trees.* The comment at helper.py:452 says "Delete the submission and cached trees and summaries". The
  trees are looked for with a search (helper.py:454), which misses one saved since the last refresh; and
  `get_or_create_file_tree` works from a submission its caller read, and saves the tree (helper.py:706)
  without asking whether the submission is still there. Either tree stays until its expiry.
  `SubmissionTree!TreesDeleted`, checked in `TreeShared.cfg` in place of `FindableTreesDeleted`, is violated.
  The bulk plan holds the trees found when it was made.
* *Failing import.* `import_bundle` saves the submission first; when a later step raises, the bundle is
  refused from then on as "already exists" (bundling.py:309-320). An upload that fails with an IOError is
  passed over (bundling.py:331): the submission then lacks the content of a file.
* *File trees.* `partial = True` in `process_file` assigns a local variable (helper.py:656-679), so that a
  tree would not be partial because a record is missing on a lower level. The call raises there: `file.get`
  answers None for a record that is gone, None is put into `file_data_map`, the test at helper.py:661 ("If
  file data still can't be found, bail out", 660) is never true, and helper.py:679 subscripts None.
  `FileTree!TreeAnswers`, checked in `Storage.cfg` in place of `TreeWhole`, is violated. A file without result
  or error is shown whatever its classification (helper.py:597 asks for those the submission names only). A
  cached tree may be of a day before a result was saved anew; it is used as long as it has as many files as
  have results and the highest score is the same. A file first met just below `max_depth` counts as met and is
  left out, although it is reachable higher up, which is why `TreeWhole` asks for all files only where the
  depth cuts nothing. `get_summary_from_keys` uses the last `heur_id` of its loop.

Stores:

* *Archiving over an older copy.* `archive` finds the document in the archive, does not copy it, and deletes
  the newer one from the hot index (collection.py:459, 469; `ArchiveMove!ArchiveMoves`). What is saved between
  the read and the deletion is lost (`arcGap`).
* *Deleting while archiving.* `delete` erases a document from the hot index and then from the archive
  (collection.py:1048): one that is saved anew and archived in between is erased from the archive (`arcGap`).
* *Archiving by query.* `max_docs` is the batch size of the copy and the limit of the deletion only. The
  deletion runs the query again: what matches since, or was not visible to the copy, is deleted without being
  archived (collection.py:515-529); a copy that fails after exactly `max_docs` documents is followed by the
  deletion; and a deletion repeated after a conflict deletes more than `max_docs` (collection.py:388).
* *Half-written file.* `TransportLocal.put` renames the temporary file in a `finally`
  (transport/local.py:123-131): after a failed write the name stands for half a file, which the next put takes
  for the file (`fsBroken`).
* *Cache store.* `save` does not force by default: what is stored under a name that exists is not replaced.
* *Deep paging.* With `rows=0` the point in time is opened and not closed.
* *After a fix_shards that died.* The fix of another index unblocks writes; what is saved to the first index
  then, beside its copy, is dropped when the fix is taken up (collection.py:650, 671). The one that takes it
  up reads `cur_replicas` from the temporary index, which has none, and leaves 0 replicas (collection.py:611).
  `SavedKept` excepts `late` documents, `FixRestores` asks for replicas of uninterrupted fixes only. A reindex
  over what it left gives the index its shards; the next `fix_shards` then sees nothing to do, and the
  temporary index stays (collection.py:635-640). `FixRestores` excepts it (`spoiled`).
* *Auto-created index.* With `action.auto_create_index` a document saved between `FixDrop` and `FixResize`
  creates the index; `fix_shards` raises, and its repetition deletes that index.
* *Reindex.* The docstring at collection.py:706 says "perform a reindex of all the data of the different
  hosts". `reindex` copies what a search of the index finds (739) without refreshing it first (744 refreshes
  the copy), and deletes it at 748: a document whose save was acknowledged and which no search sees yet is
  lost. `IndexMaintenance!AllSavedKept`, checked in `Storage.cfg` in place of `SavedKept`, is violated.
  Documents saved between the copy and the deletion of the old index are lost, writes are blocked only after
  it (collection.py:738-751); `SavedKept` excepts all of these (`late`). A reindex that dies after the
  deletion is passed over when repeated (collection.py:715), and the datastore stays blocked if it died after
  751. `WritesComeBack` and `FixRestores` except it (`spoiled`).
* *Names not examined.* With two filter workers, one that stops early lets the erasers stop while names are
  left (`FilestoreCleanup!AllExamined` without failures). When all filter workers fail, the lister blocks on a
  full queue for ever, which is why `MaxFailures` is below the number of workers.
* *Followed results.* `FOLLOW_KEYS` has "results" for a collection called "result" (backupmanager.py:361): the
  files of a result are never followed. `Followed` models it as it is, so `BackupComplete` does not ask for
  them.
* *Duplicates.* Two workers that follow the same key both find it absent in the hash and both push it
  (backupmanager.py:51-52); the summary counts both lines.
* *Slow backup.* The queues expire 1800 s after a push (backupmanager.py:105).

Workers and algorithms:

* *Lock.* The timeout is part of the key: locks of the same name with different timeouts do not exclude each
  other.
* *Rules.* An event sent between the first load and `register`, or while the watcher is not connected, is
  missed; a callback that raises ends the watcher's thread (events.py:48-49); a read that fails at the start
  leaves the defaults. `RulesCurrent` excuses these.
* *Archive manager.* Without a scheduler `archive_submission` returns None, and nothing is archived.
* *All addresses.* The range from the first to the last address is stored as its first 256 addresses only
  (iprange.py:51). `RangesAgree` excepts it.
* *Intruding groups.* A group that a subgroup requires is added after the groups were narrowed. Where it is
  not selected automatically, the maximum of "groups G" and "subgroup S, which requires R" has G and R, any
  one of which is enough, so that a member of R sees the maximum and not the first.
  `src/test/classification.yml:41` is such a definition; the one that is shipped is not
  (`StorageProofs!RequiredGroupsIntrude`).
* *Required groups.* When one of two classifications has no groups and a subgroup requires one, the minimum
  has a group that readers of the other lack (`RequiredGroupsAppear`). `limited_to_group` depends on the order
  of a Python set.
* *Cached texts.* `normalize_classification` returns a text that is in its cache unchanged
  (classification.py:872), and the cache holds nearly all texts from the start, so that `auto_select`,
  `require_group` and `require_lvl` are not applied to them, although its docstring says "by applying the
  rules defined in the classification definition" (classification.py:856). The rules are applied to
  combinations: the maximum of `L1//REL TO G` and `L1` is `L1//REL TO CSE, G`, seen by members of CSE who do
  not see the first, although `max_classification` "returns to most restrictive form" (classification.py:771;
  `Markings!MaxRestricts`, checked in `Storage.cfg` in place of `ReadersAgree`, is violated); the minimum of
  `L1//CMR` with itself is `L2//CMR`, which a reader with `L1//CMR` does not see. `ReadersAgree` asks for
  documents, and for the intersection of users, only where the rules have nothing to add to what is combined
  (`Settled`).

## 7. Not modelled

* *Data.* `common/attack_map.py` and `net_static.py` are 32 thousand lines of constant tables, more than half
  of the implementation; `odm/` is another 7 thousand of field types and document classes. Neither has
  behaviour over time.
* *Documents' contents* beyond what the properties tell apart; the query language, facets, histograms, grouped
  searches, update_by_query.
* *Pure computation* without a promise that several pieces of state could break: heuristics and scoring, the
  signatures of identification, tagging, the parsing and writing of classifications, the filter language of
  the actions, summaries.
* *Input and output*: webhooks, the connections of the transports, importers, command line.
* *Times*: the 3 s of the cleanup's queues, the BLPOP timeout and the 1800 s TTL of the backup's queues. A
  `multiprocessing.Queue` is assumed to deliver within the 3 s. A worker killed from outside the backup leaves
  `done_thread` waiting; no such kill is in the model.
* `restore`, bundle creation, the alert and the rescan of an import; `UniquePriorityQueue`, `MultiQueue`;
  gauges of the metrics; counters, sets and hashes in Redis, which are one command or one script each;
  `upload` to several transports, which differs from `put` in what it verifies.
* `with_retries` for connection errors other than a timeout: the request was not executed and is repeated.
* Between machines of `workers` and `maintenance` nothing is composed, since they meet in callers outside of
  `src/`. Where components do meet, one module has both: the cleanup with the cache store, deletions with
  imports, `fix_shards` with saves, archiving with lookups, the actions with the archive manager.

## 8. Plan

Done, in this order: `FileFreshen` with `FileLedger` and proofs; `SubmissionTree` and proofs;
`FilestoreCleanup` and proofs; `DistributedBackup`; `IndexMaintenance`; the machines of the workers with the
proofs of four of them; archiving, transports, paging, and the algorithms; the proofs of archiving, transports
and markings (`StorageProofs`), of the queues (`WorkerProofs`), of the backup (`BackupProofs`), of the index
maintenance (`MaintenanceProofs`), and of what a deletion leaves (`SubmissionTreeProofs`); the proofs of where
the cleanup has its names, of paging and file trees, of the IP ranges (`RangeProofs`), and of the types of the
machines side by side.

Left to prove: `NothingOrphaned` for two deletions that share no file, from the proof for one.

Left to model: backup restore, lost replies in the backup, further queues, an import that ends half-way, and
what crosses machines when their callers are added to the repository.
