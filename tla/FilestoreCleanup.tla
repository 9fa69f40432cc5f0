-------------------------- MODULE FilestoreCleanup --------------------------
(***************************************************************************)
(* Garbage collection of a filestore: cleanup_filestore and its workers    *)
(* (src/assemblyline/common/cleanup_filestore.py), while CacheStore.save   *)
(* (cachestore/__init__.py) goes on storing files.                         *)
(*                                                                         *)
(* One process lists the filestore into a queue, some filter out the names *)
(* that have an entry in the datastore, others erase what is left.  They   *)
(* run down one after the other: a worker whose queue stays empty for      *)
(* three seconds stops once the workers before it have stopped.            *)
(***************************************************************************)
EXTENDS Naturals, FiniteSets, FiniteSetsExt

CONSTANTS
  Names,          \* the file names
  FileRecs,       \* those with an entry in the file index
  CacheRecs,      \* those with an entry in the cached_file index
  Orphans,        \* those in the filestore without an entry
  Saved,          \* the names CacheStore.save stores meanwhile
  Filters,        \* FILTER_WORKERS
  Erasers,        \* DELETE_WORKERS
  ListedMax,      \* size of the listed queue
  FilteredMax,    \* size of the filtered queue
  MaxFailures     \* bound: workers stopped by an exception

ASSUME CleanupAssumption ==
  /\ FileRecs \cup CacheRecs \cup Orphans \cup Saved \subseteq Names
  /\ Orphans \cap (FileRecs \cup CacheRecs) = {}
  /\ IsFiniteSet(Names) /\ IsFiniteSet(Filters) /\ IsFiniteSet(Erasers)
  /\ {ListedMax, FilteredMax} \subseteq Nat \ {0} /\ MaxFailures \in Nat

VARIABLES
  blobs,             \* what the filestore holds
  cached,            \* the names in the cached_file index
  spc,               \* where each CacheStore.save is
  lpc, listed,       \* the listing worker, and the names it has sent
  listedQueue, listingRunning, listingCount,
  fpc, fname, total, \* the filter workers, their filename and total_filtered
  filteredQueue, filteringRunning, filteringCount,
  epc, ename, erased,\* the erase workers, their filename and total_erased
  eraseCount,
  failed             \* the names lost with a worker that failed (history)

listVars   == <<lpc, listed, listedQueue, listingRunning, listingCount>>
filterVars == <<fpc, fname, total, filteringRunning, filteringCount>>
eraseVars  == <<epc, ename, erased, eraseCount>>
vars == <<blobs, cached, spc, listVars, filterVars, filteredQueue, eraseVars, failed>>

None == "no name"
-----------------------------------------------------------------------------
Init ==
  /\ blobs = FileRecs \cup CacheRecs \cup Orphans /\ cached = CacheRecs
  /\ spc = [n \in Saved |-> "record"]
  /\ lpc = "list" /\ listed = {} /\ listedQueue = {}
  /\ listingRunning = 1 /\ listingCount = 0
  /\ fpc = [w \in Filters |-> "get"] /\ fname = [w \in Filters |-> None]
  /\ total = [w \in Filters |-> 0]
  /\ filteredQueue = {} /\ filteringRunning = Cardinality(Filters) /\ filteringCount = 0
  /\ epc = [e \in Erasers |-> "get"] /\ ename = [e \in Erasers |-> None]
  /\ erased = [e \in Erasers |-> 0]
  /\ eraseCount = 0 /\ failed = {}

(***************************************************************************)
(* list_files.  A name stored while the listing goes on may be in it or    *)
(* not.  The queue blocks when it is full.                                 *)
(***************************************************************************)
List(n) ==
  /\ lpc = "list" /\ n \in blobs \ listed
  /\ Cardinality(listedQueue) < ListedMax
  /\ listed' = listed \cup {n} /\ listedQueue' = listedQueue \cup {n}
  /\ UNCHANGED <<blobs, cached, spc, lpc, listingRunning, listingCount, filterVars,
                 filteredQueue, eraseVars, failed>>

\* The finally clause: the count first, then the flag.
ListEnd ==
  /\ lpc = "list" /\ (FileRecs \cup CacheRecs \cup Orphans) \cap blobs \subseteq listed
  /\ lpc' = "done"
  /\ listingCount' = Cardinality(listed) /\ listingRunning' = 0
  /\ UNCHANGED <<blobs, cached, spc, listed, listedQueue, filterVars, filteredQueue,
                 eraseVars, failed>>

Failures == (IF lpc = "failed" THEN 1 ELSE 0)
              + Cardinality({w \in Filters : fpc[w] = "failed"})
              + Cardinality({e \in Erasers : epc[e] = "failed"})

\* An exception of the transport; the finally clause is the same.
ListFails ==
  /\ lpc = "list" /\ Failures < MaxFailures
  /\ lpc' = "failed"
  /\ listingCount' = Cardinality(listed) /\ listingRunning' = 0
  /\ UNCHANGED <<blobs, cached, spc, listed, listedQueue, filterVars, filteredQueue,
                 eraseVars, failed>>
-----------------------------------------------------------------------------
(***************************************************************************)
(* filter_files.                                                           *)
(***************************************************************************)
FilterGet(w) ==
  /\ fpc[w] = "get"
  /\ \E n \in listedQueue :
       /\ listedQueue' = listedQueue \ {n}
       /\ fname' = [fname EXCEPT ![w] = n]
  /\ fpc' = [fpc EXCEPT ![w] = "file"]
  /\ UNCHANGED <<blobs, cached, spc, lpc, listed, listingRunning, listingCount, total,
                 filteringRunning, filteringCount, filteredQueue, eraseVars, failed>>

\* The get gives up after three seconds without a name ...
FilterEmpty(w) ==
  /\ fpc[w] = "get" /\ listedQueue = {}
  /\ fpc' = [fpc EXCEPT ![w] = "empty"]
  /\ UNCHANGED <<blobs, cached, spc, listVars, fname, total, filteringRunning,
                 filteringCount, filteredQueue, eraseVars, failed>>

\* How a filter worker ends, with the two steps of its finally clause.
\* (Fault: the flag is forgotten.)
FilterStopsSilently(w, how) ==
  /\ fpc' = [fpc EXCEPT ![w] = how]
  /\ filteringCount' = filteringCount + total[w]
  /\ UNCHANGED filteringRunning
FilterStops(w, how) ==
  /\ fpc' = [fpc EXCEPT ![w] = how]
  /\ filteringCount' = filteringCount + total[w]
  /\ filteringRunning' = filteringRunning - 1

\* ... and then looks at the flag.
FilterCheck(w) ==
  /\ fpc[w] = "empty"
  /\ IF listingRunning = 0 THEN FilterStops(w, "done")
     ELSE /\ fpc' = [fpc EXCEPT ![w] = "get"]
          /\ UNCHANGED <<filteringRunning, filteringCount>>
  /\ UNCHANGED <<blobs, cached, spc, listVars, fname, total, filteredQueue, eraseVars, failed>>

\* An entry found keeps the name; the next lookup is made otherwise.
\* (Fault: the name is counted and yet goes on.)
LookupGoesOn(w, from, to, entries) ==
  /\ fpc[w] = from
  /\ total' = [total EXCEPT ![w] = IF fname[w] \in entries THEN @ + 1 ELSE @]
  /\ fpc' = [fpc EXCEPT ![w] = to]
  /\ UNCHANGED <<blobs, cached, spc, listVars, fname, filteringRunning, filteringCount,
                 filteredQueue, eraseVars, failed>>
Lookup(w, from, to, entries) ==
  /\ fpc[w] = from
  /\ IF fname[w] \in entries
     THEN /\ total' = [total EXCEPT ![w] = @ + 1]
          /\ fpc' = [fpc EXCEPT ![w] = "get"]
     ELSE /\ fpc' = [fpc EXCEPT ![w] = to]
          /\ UNCHANGED total
  /\ UNCHANGED <<blobs, cached, spc, listVars, fname, filteringRunning, filteringCount,
                 filteredQueue, eraseVars, failed>>

\* (Fault: the file index is not searched.)
FilterCacheOnly(w) == Lookup(w, "file", "cached", {})
FilterFile(w)     == Lookup(w, "file", "cached", FileRecs)
FilterCached(w)   == Lookup(w, "cached", "put", cached)

FilterPut(w) ==
  /\ fpc[w] = "put" /\ Cardinality(filteredQueue) < FilteredMax
  /\ filteredQueue' = filteredQueue \cup {fname[w]}
  /\ fpc' = [fpc EXCEPT ![w] = "get"]
  /\ UNCHANGED <<blobs, cached, spc, listVars, fname, total, filteringRunning,
                 filteringCount, eraseVars, failed>>

\* An exception of the datastore, or on its creation.
FilterFails(w) ==
  /\ fpc[w] \in {"get", "file", "cached"} /\ Failures < MaxFailures
  /\ failed' = failed \cup IF fpc[w] = "get" THEN {} ELSE {fname[w]}
  /\ FilterStops(w, "failed")
  /\ UNCHANGED <<blobs, cached, spc, listVars, fname, total, filteredQueue, eraseVars>>
-----------------------------------------------------------------------------
(***************************************************************************)
(* erase_files.                                                            *)
(***************************************************************************)
EraseGet(e) ==
  /\ epc[e] = "get"
  /\ \E n \in filteredQueue :
       /\ filteredQueue' = filteredQueue \ {n}
       /\ ename' = [ename EXCEPT ![e] = n]
  /\ epc' = [epc EXCEPT ![e] = "erase"]
  /\ UNCHANGED <<blobs, cached, spc, listVars, filterVars, erased, eraseCount, failed>>

EraseEmpty(e) ==
  /\ epc[e] = "get" /\ filteredQueue = {}
  /\ epc' = [epc EXCEPT ![e] = "empty"]
  /\ UNCHANGED <<blobs, cached, spc, listVars, filterVars, filteredQueue, ename, erased,
                 eraseCount, failed>>

EraseCheck(e) ==
  /\ epc[e] = "empty"
  /\ IF filteringRunning = 0
     THEN /\ epc' = [epc EXCEPT ![e] = "done"]
          /\ eraseCount' = eraseCount + erased[e]
     ELSE /\ epc' = [epc EXCEPT ![e] = "get"]
          /\ UNCHANGED eraseCount
  /\ UNCHANGED <<blobs, cached, spc, listVars, filterVars, filteredQueue, ename, erased, failed>>

Erase(e) ==
  /\ epc[e] = "erase"
  /\ blobs' = blobs \ {ename[e]}
  /\ erased' = [erased EXCEPT ![e] = @ + 1]
  /\ epc' = [epc EXCEPT ![e] = "get"]
  /\ UNCHANGED <<cached, spc, listVars, filterVars, filteredQueue, ename, eraseCount, failed>>

\* An exception of the transport.
EraseFails(e) ==
  /\ epc[e] \in {"get", "erase"} /\ Failures < MaxFailures
  /\ failed' = failed \cup IF epc[e] = "get" THEN {} ELSE {ename[e]}
  /\ epc' = [epc EXCEPT ![e] = "failed"]
  /\ eraseCount' = eraseCount + erased[e]
  /\ UNCHANGED <<blobs, cached, spc, listVars, filterVars, filteredQueue, ename, erased>>
-----------------------------------------------------------------------------
(***************************************************************************)
(* CacheStore.save: the entry first, then FileStore.put, which leaves a    *)
(* file that is already there and looks for the file it has put.           *)
(***************************************************************************)
SaveRecord(n) ==
  /\ spc[n] = "record"
  /\ cached' = cached \cup {n}
  /\ spc' = [spc EXCEPT ![n] = "exists"]
  /\ UNCHANGED <<blobs, listVars, filterVars, filteredQueue, eraseVars, failed>>

SaveExists(n) ==
  /\ spc[n] = "exists"
  /\ spc' = [spc EXCEPT ![n] = IF n \in blobs THEN "saved" ELSE "put"]
  /\ UNCHANGED <<blobs, cached, listVars, filterVars, filteredQueue, eraseVars, failed>>

\* (Fault: the put comes before the entry.)
SavePutFirst(n) ==
  /\ spc[n] \in {"record", "put"}
  /\ IF spc[n] = "record" THEN blobs' = blobs \cup {n} ELSE UNCHANGED blobs
  /\ spc' = [spc EXCEPT ![n] = IF @ = "put" THEN "verify" ELSE @]
  /\ UNCHANGED <<cached, listVars, filterVars, filteredQueue, eraseVars, failed>>
SavePut(n) ==
  /\ spc[n] = "put"
  /\ blobs' = blobs \cup {n}
  /\ spc' = [spc EXCEPT ![n] = "verify"]
  /\ UNCHANGED <<cached, listVars, filterVars, filteredQueue, eraseVars, failed>>

SaveVerify(n) ==
  /\ spc[n] = "verify"
  /\ spc' = [spc EXCEPT ![n] = IF n \in blobs THEN "saved" ELSE "raised"]
  /\ UNCHANGED <<blobs, cached, listVars, filterVars, filteredQueue, eraseVars, failed>>
-----------------------------------------------------------------------------
Stopped == {"done", "failed"}

\* cleanup_filestore has joined all its workers.
Returned == /\ lpc \in Stopped
            /\ \A w \in Filters : fpc[w] \in Stopped
            /\ \A e \in Erasers : epc[e] \in Stopped

Finished == Returned /\ (\A n \in Saved : spc[n] \in {"saved", "raised"}) /\ UNCHANGED vars

ListStep      == ListEnd \/ ListFails \/ \E n \in Names : List(n)
FilterStep(w) == \/ FilterGet(w) \/ FilterEmpty(w) \/ FilterCheck(w) \/ FilterFile(w)
                 \/ FilterCached(w) \/ FilterPut(w) \/ FilterFails(w)
EraseStep(e)  == \/ EraseGet(e) \/ EraseEmpty(e) \/ EraseCheck(e) \/ Erase(e)
                 \/ EraseFails(e)
SaveStep(n)   == SaveRecord(n) \/ SaveExists(n) \/ SavePut(n) \/ SaveVerify(n)

Next == \/ ListStep
        \/ \E w \in Filters : FilterStep(w)
        \/ \E e \in Erasers : EraseStep(e)
        \/ \E n \in Saved : SaveStep(n)
        \/ Finished

Spec     == Init /\ [][Next]_vars

\* The processes run; saves may stop anywhere.
FairSpec == /\ Spec /\ WF_vars(ListStep)
            /\ \A w \in Filters : WF_vars(FilterStep(w))
            /\ \A e \in Erasers : WF_vars(EraseStep(e))
-----------------------------------------------------------------------------
TypeOK ==
  /\ {blobs, cached, listed, listedQueue, filteredQueue, failed} \subseteq SUBSET Names
  /\ spc \in [Saved -> {"record", "exists", "put", "verify", "saved", "raised"}]
  /\ lpc \in {"list"} \cup Stopped
  /\ fpc \in [Filters -> {"get", "empty", "file", "cached", "put"} \cup Stopped]
  /\ epc \in [Erasers -> {"get", "empty", "erase"} \cup Stopped]
  /\ fname \in [Filters -> Names \cup {None}] /\ ename \in [Erasers -> Names \cup {None}]
  /\ total \in [Filters -> Nat] /\ erased \in [Erasers -> Nat]
  /\ {listingCount, filteringCount, eraseCount} \subseteq Nat
  /\ listingRunning \in 0..1 /\ filteringRunning \in 0..Cardinality(Filters)

\* A file whose entry was there before the cleanup is not erased.
RecordedKept == FileRecs \cup CacheRecs \subseteq blobs

(***************************************************************************)
(* A file stored for the first time while the cleanup runs is not erased   *)
(* either: its entry is there before the listing can find it.              *)
(***************************************************************************)
NewFilesKept == \A n \in Saved \ Orphans : spc[n] = "saved" => n \in blobs

\* The names between two workers, or given up with one that failed.
Holding   == {w \in Filters : fpc[w] \in {"file", "cached", "put"}}
Erasing   == {e \in Erasers : epc[e] = "erase"}
Pending   == listedQueue \cup filteredQueue \cup failed
               \cup {fname[w] : w \in Holding} \cup {ename[e] : e \in Erasing}

(***************************************************************************)
(* What the returned message is made of: every name that was listed is     *)
(* counted once as filtered or as erased, is still on its way, or was lost *)
(* with a worker that failed.                                              *)
(***************************************************************************)
NamesAddUp ==
  Cardinality(listed)
    = MapThenSumSet(LAMBDA w : total[w], Filters)
      + MapThenSumSet(LAMBDA e : erased[e], Erasers) + Cardinality(Pending)

\* The cleanup ends although workers fail, as long as one of each kind lives.
CleanupReturns == <>Returned

(***************************************************************************)
(* Why RecordedKept and NewFilesKept hold: a new file is listed after it   *)
(* got its entry, a name with an entry gets past one of the two lookups    *)
(* only, and so no eraser is ever given one.                               *)
(***************************************************************************)
Recorded == FileRecs \cup CacheRecs
Kept     == Recorded \cup (Saved \ Orphans)

SavedInv ==
  \A n \in Saved \ Orphans :
    /\ spc[n] = "record" /\ n \notin Recorded => n \notin blobs \cup listed
    /\ spc[n] # "record" => n \in cached
    /\ spc[n] = "verify" => n \in blobs

FilterInv ==
  \A w \in Filters :
    /\ fpc[w] \in {"file", "cached", "put"} => fname[w] \in listed
    /\ fpc[w] = "cached" => fname[w] \notin FileRecs
    /\ fpc[w] = "put" => fname[w] \notin Kept

EraseInv ==
  /\ filteredQueue \cap Kept = {}
  /\ \A e \in Erasers : epc[e] = "erase" => ename[e] \notin Kept

KeepInv ==
  /\ CacheRecs \subseteq cached /\ listedQueue \subseteq listed
  /\ SavedInv /\ FilterInv /\ EraseInv
  /\ RecordedKept /\ NewFilesKept
-----------------------------------------------------------------------------
(* What the code does not keep; see the README. *)

\* When all workers ended without an exception, every name was examined.
AllExamined == Returned /\ Failures = 0 => listedQueue = {} /\ filteredQueue = {}

\* A file with an entry is not erased.
EntriesKept == \A n \in Saved : spc[n] = "saved" => n \in blobs
=============================================================================
