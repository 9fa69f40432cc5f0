----------------------- MODULE FilestoreCleanupProofs -----------------------
(***************************************************************************)
(* The cleanup of the filestore erases no file that has an entry, nor one  *)
(* that is stored for the first time meanwhile, and the numbers it returns *)
(* account for every name it listed, for any number of names and workers,  *)
(* any size of the queues, and any failures.                               *)
(***************************************************************************)
EXTENDS FilestoreCleanup, FiniteSetTheorems, WellFoundedInduction, TLAPS

\* The workers counted in filtering_running.
Live == {w \in Filters : fpc[w] \notin Stopped}

RunningInv == filteringRunning = Cardinality(Live)

\* A worker that has a file has its name.
HeldInv == /\ \A w \in Filters : fpc[w] \in {"file", "cached", "put"} => fname[w] \in Names
           /\ \A e \in Erasers : epc[e] = "erase" => ename[e] \in Names

\* A worker that goes on does not change the count, one that stops does.
LEMMA LiveStays ==
  ASSUME NEW w \in Filters, NEW to \in {"get", "empty", "file", "cached", "put"},
         fpc \in [Filters -> {"get", "empty", "file", "cached", "put"} \cup Stopped],
         fpc[w] \notin Stopped, fpc' = [fpc EXCEPT ![w] = to]
  PROVE  Live' = Live
BY DEF Live, Stopped

LEMMA LiveStops ==
  ASSUME NEW w \in Filters, NEW how \in Stopped, TypeOK, RunningInv,
         fpc[w] \notin Stopped, FilterStops(w, how)
  PROVE  /\ RunningInv'
         /\ filteringRunning' \in 0..Cardinality(Filters)
         /\ filteringCount' \in Nat
         /\ fpc' \in [Filters -> {"get", "empty", "file", "cached", "put"} \cup Stopped]
<1>1. IsFiniteSet(Live) /\ w \in Live
  BY CleanupAssumption, FS_Subset DEF Live
<1>2. Live' = Live \ {w}
  BY DEF Live, FilterStops, TypeOK
<1>3. Cardinality(Live \ {w}) = Cardinality(Live) - 1 /\ Cardinality(Live) \in Nat
  BY <1>1, FS_RemoveElement, FS_CardinalityType
<1>4. RunningInv'
  BY <1>2, <1>3 DEF RunningInv, FilterStops
<1>5. Cardinality(Live \ {w}) \in Nat /\ Cardinality(Filters) \in Nat
  BY <1>1, CleanupAssumption, FS_CardinalityType, FS_Subset
<1>6. filteringRunning' \in 0..Cardinality(Filters)
  BY <1>3, <1>5 DEF RunningInv, FilterStops, TypeOK
<1>7. filteringCount' \in Nat
  BY DEF FilterStops, TypeOK
<1> QED
  BY <1>4, <1>6, <1>7 DEF FilterStops, TypeOK

LEMMA TypeInit == Init => TypeOK /\ RunningInv
<1> SUFFICES ASSUME Init PROVE TypeOK /\ RunningInv
  OBVIOUS
<1>1. Live = Filters
  BY DEF Init, Live, Stopped
<1>2. Cardinality(Filters) \in Nat
  BY CleanupAssumption, FS_CardinalityType
<1> QED
  BY <1>1, <1>2, CleanupAssumption DEF Init, TypeOK, RunningInv, Stopped

LEMMA TypeList ==
  ASSUME TypeOK, RunningInv, ListStep
  PROVE  TypeOK' /\ RunningInv'
<1>1. UNCHANGED <<filterVars, eraseVars, spc, blobs, cached, filteredQueue, failed>>
  BY DEF ListStep, List, ListEnd, ListFails
<1>2. RunningInv'
  BY <1>1 DEF RunningInv, Live, filterVars
<1>3. Cardinality(listed) \in Nat
  BY CleanupAssumption, FS_Subset, FS_CardinalityType DEF TypeOK
<1>4. /\ listed' \subseteq Names /\ listedQueue' \subseteq Names
      /\ lpc' \in {"list"} \cup Stopped /\ listingRunning' \in 0..1
      /\ listingCount' \in Nat
  BY <1>3 DEF TypeOK, ListStep, List, ListEnd, ListFails, Stopped
<1> QED
  BY <1>1, <1>2, <1>4 DEF TypeOK, filterVars, eraseVars

LEMMA TypeFilter ==
  ASSUME NEW w \in Filters, TypeOK, RunningInv, HeldInv, FilterStep(w)
  PROVE  TypeOK' /\ RunningInv'
<1>0. {"get", "empty", "file", "cached", "put"} \cap Stopped = {}
  BY DEF Stopped
<1>1. CASE FilterGet(w)
  <2>1. fpc' = [fpc EXCEPT ![w] = "file"] /\ Live' = Live
    BY <1>0, <1>1, LiveStays DEF FilterGet, TypeOK
  <2> QED
    BY <1>1, <2>1 DEF FilterGet, TypeOK, RunningInv, eraseVars
<1>2. CASE FilterEmpty(w)
  <2>1. Live' = Live
    BY <1>0, <1>2, LiveStays DEF FilterEmpty, TypeOK
  <2> QED
    BY <1>2, <2>1 DEF FilterEmpty, TypeOK, RunningInv, listVars, eraseVars
<1>3. CASE FilterCheck(w)
  <2>1. CASE listingRunning = 0
    <3>1. FilterStops(w, "done") /\ fpc[w] \notin Stopped
      BY <1>0, <1>3, <2>1 DEF FilterCheck
    <3>2. /\ RunningInv' /\ filteringRunning' \in 0..Cardinality(Filters)
          /\ filteringCount' \in Nat
          /\ fpc' \in [Filters -> {"get", "empty", "file", "cached", "put"} \cup Stopped]
      BY <3>1, LiveStops DEF Stopped
    <3> QED
      BY <1>3, <3>2 DEF FilterCheck, TypeOK, listVars, eraseVars
  <2>2. CASE listingRunning # 0
    <3>1. Live' = Live
      BY <1>0, <1>3, <2>2, LiveStays DEF FilterCheck, TypeOK
    <3> QED
      BY <1>3, <2>2, <3>1 DEF FilterCheck, TypeOK, RunningInv, listVars, eraseVars
  <2> QED
    BY <2>1, <2>2
<1>4. CASE FilterFile(w) \/ FilterCached(w)
  <2>1. PICK from \in {"file", "cached"}, to \in {"cached", "put"}, entries \in {FileRecs, cached} :
          Lookup(w, from, to, entries)
    BY <1>4 DEF FilterFile, FilterCached
  <2>2. fpc' \in {[fpc EXCEPT ![w] = "get"], [fpc EXCEPT ![w] = to]} /\ fpc[w] \notin Stopped
    BY <1>0, <2>1 DEF Lookup
  <2>3. Live' = Live
    BY <2>2, LiveStays DEF TypeOK
  <2>4. total' \in [Filters -> Nat]
        /\ fpc' \in [Filters -> {"get", "empty", "file", "cached", "put"} \cup Stopped]
    BY <2>1, <2>2 DEF Lookup, TypeOK
  <2> QED
    BY <2>1, <2>3, <2>4 DEF Lookup, TypeOK, RunningInv, listVars, eraseVars
<1>5. CASE FilterPut(w)
  <2>1. Live' = Live
    BY <1>0, <1>5, LiveStays DEF FilterPut, TypeOK
  <2>2. filteredQueue' \subseteq Names
    BY <1>5 DEF FilterPut, HeldInv, TypeOK
  <2> QED
    BY <1>5, <2>1, <2>2 DEF FilterPut, TypeOK, RunningInv, listVars, eraseVars
<1>6. CASE FilterFails(w)
  <2>1. FilterStops(w, "failed") /\ fpc[w] \notin Stopped
    BY <1>0, <1>6 DEF FilterFails
  <2>2. /\ RunningInv' /\ filteringRunning' \in 0..Cardinality(Filters)
        /\ filteringCount' \in Nat
        /\ fpc' \in [Filters -> {"get", "empty", "file", "cached", "put"} \cup Stopped]
    BY <2>1, LiveStops DEF Stopped
  <2>3. failed' \subseteq Names
    BY <1>6 DEF FilterFails, HeldInv, TypeOK
  <2> QED
    BY <1>6, <2>2, <2>3 DEF FilterFails, TypeOK, listVars, eraseVars
<1> QED
  BY <1>1, <1>2, <1>3, <1>4, <1>5, <1>6 DEF FilterStep

LEMMA TypeErase ==
  ASSUME NEW e \in Erasers, TypeOK, RunningInv, HeldInv, EraseStep(e)
  PROVE  TypeOK' /\ RunningInv'
<1>1. UNCHANGED <<listVars, filterVars, cached, spc>>
  BY DEF EraseStep, EraseGet, EraseEmpty, EraseCheck, Erase, EraseFails
<1>2. RunningInv'
  BY <1>1 DEF RunningInv, Live, filterVars
<1>3. epc' \in [Erasers -> {"get", "empty", "erase"} \cup Stopped]
  <2>1. PICK to \in {"get", "empty", "erase", "done", "failed"} : epc' = [epc EXCEPT ![e] = to]
    BY DEF EraseStep, EraseGet, EraseEmpty, EraseCheck, Erase, EraseFails
  <2> QED
    BY <2>1 DEF TypeOK, Stopped
<1>4. ename' \in [Erasers -> Names \cup {None}]
  <2>1. ename' = ename \/ \E n \in filteredQueue : ename' = [ename EXCEPT ![e] = n]
    BY DEF EraseStep, EraseGet, EraseEmpty, EraseCheck, Erase, EraseFails
  <2> QED
    BY <2>1 DEF TypeOK
<1>5. erased' \in [Erasers -> Nat] /\ eraseCount' \in Nat
  <2>1. erased' \in {erased, [erased EXCEPT ![e] = @ + 1]}
        /\ eraseCount' \in {eraseCount, eraseCount + erased[e]}
    BY DEF EraseStep, EraseGet, EraseEmpty, EraseCheck, Erase, EraseFails
  <2> QED
    BY <2>1 DEF TypeOK
<1>6. blobs' \subseteq Names /\ filteredQueue' \subseteq Names /\ failed' \subseteq Names
  BY DEF EraseStep, EraseGet, EraseEmpty, EraseCheck, Erase, EraseFails, TypeOK, HeldInv
<1> QED
  BY <1>1, <1>2, <1>3, <1>4, <1>5, <1>6 DEF TypeOK, listVars, filterVars

LEMMA TypeSave ==
  ASSUME NEW n \in Saved, TypeOK, RunningInv, SaveStep(n)
  PROVE  TypeOK' /\ RunningInv'
<1>1. UNCHANGED <<listVars, filterVars, eraseVars, filteredQueue, failed>>
  BY DEF SaveStep, SaveRecord, SaveExists, SavePut, SaveVerify
<1>2. RunningInv'
  BY <1>1 DEF RunningInv, Live, filterVars
<1>3. n \in Names
  BY CleanupAssumption
<1>4. /\ spc' \in [Saved -> {"record", "exists", "put", "verify", "saved", "raised"}]
      /\ blobs' \subseteq Names /\ cached' \subseteq Names
  BY <1>3 DEF SaveStep, SaveRecord, SaveExists, SavePut, SaveVerify, TypeOK
<1> QED
  BY <1>1, <1>2, <1>4 DEF TypeOK, listVars, filterVars, eraseVars

LEMMA Held ==
  ASSUME TypeOK, HeldInv, Next
  PROVE  HeldInv'
<1>1. CASE ListStep \/ (\E n \in Saved : SaveStep(n)) \/ Finished
  BY <1>1 DEF ListStep, List, ListEnd, ListFails, SaveStep, SaveRecord, SaveExists, SavePut,
     SaveVerify, Finished, HeldInv, vars, filterVars, eraseVars
<1>2. ASSUME NEW w \in Filters, FilterStep(w) PROVE HeldInv'
  <2>1. UNCHANGED eraseVars
    BY <1>2 DEF FilterStep, FilterGet, FilterEmpty, FilterCheck, FilterFile, FilterCached,
       Lookup, FilterPut, FilterFails
  <2>2. ASSUME NEW v \in Filters, v # w
        PROVE  fpc'[v] = fpc[v] /\ fname'[v] = fname[v]
    BY <1>2, <2>2 DEF FilterStep, FilterGet, FilterEmpty, FilterCheck, FilterFile,
       FilterCached, Lookup, FilterPut, FilterFails, FilterStops, TypeOK
  <2>3. fpc'[w] \in {"file", "cached", "put"} => fname'[w] \in Names
    BY <1>2 DEF FilterStep, FilterGet, FilterEmpty, FilterCheck, FilterFile, FilterCached,
       Lookup, FilterPut, FilterFails, FilterStops, TypeOK, HeldInv
  <2> QED
    BY <2>1, <2>2, <2>3 DEF HeldInv, eraseVars
<1>3. ASSUME NEW e \in Erasers, EraseStep(e) PROVE HeldInv'
  BY <1>3 DEF EraseStep, EraseGet, EraseEmpty, EraseCheck, Erase, EraseFails, TypeOK, HeldInv,
     filterVars
<1> QED
  BY <1>1, <1>2, <1>3 DEF Next

LEMMA TypeInductive == Spec => [](TypeOK /\ RunningInv /\ HeldInv)
<1>1. TypeOK /\ RunningInv /\ HeldInv /\ [Next]_vars => TypeOK' /\ RunningInv' /\ HeldInv'
  <2> SUFFICES ASSUME TypeOK, RunningInv, HeldInv, [Next]_vars
               PROVE  TypeOK' /\ RunningInv' /\ HeldInv'
    OBVIOUS
  <2>1. CASE UNCHANGED vars
    BY <2>1 DEF vars, listVars, filterVars, eraseVars, TypeOK, RunningInv, HeldInv, Live
  <2>2. CASE Next
    <3>1. HeldInv'
      BY <2>2, Held
    <3> QED
      BY <2>1, <2>2, <3>1, TypeList, TypeFilter, TypeErase, TypeSave DEF Next, Finished
  <2> QED
    BY <2>1, <2>2
<1>2. Init => HeldInv
  BY DEF Init, HeldInv
<1> QED
  BY <1>1, <1>2, TypeInit, PTL DEF Spec

(***************************************************************************)
(* Every variable keeps its type; in particular the flag of the filter     *)
(* workers never passes below zero.                                        *)
(***************************************************************************)
THEOREM CleanupTypeCorrect == Spec => []TypeOK
BY TypeInductive, PTL
-----------------------------------------------------------------------------
LEMMA KeepInit == Init => KeepInv
<1> SUFFICES ASSUME Init PROVE KeepInv
  OBVIOUS
<1>1. SavedInv
  BY DEF Init, SavedInv, Recorded
<1>2. FilterInv /\ EraseInv
  BY DEF Init, FilterInv, EraseInv
<1> QED
  BY <1>1, <1>2 DEF Init, KeepInv, RecordedKept, NewFilesKept

\* A name is listed only if it is in the filestore, so a new file has its entry.
LEMMA KeepList ==
  ASSUME TypeOK, KeepInv, ListStep
  PROVE  KeepInv'
<1>1. UNCHANGED <<filterVars, eraseVars, spc, blobs, cached, filteredQueue>>
  BY DEF ListStep, List, ListEnd, ListFails
<1>2. /\ listed \subseteq listed' /\ listed' \subseteq listed \cup blobs
      /\ listedQueue' \subseteq listed'
  BY DEF ListStep, List, ListEnd, ListFails, KeepInv
<1>3. SavedInv'
  BY <1>1, <1>2 DEF KeepInv, SavedInv
<1>4. FilterInv' /\ EraseInv'
  BY <1>1, <1>2 DEF KeepInv, FilterInv, EraseInv, filterVars, eraseVars
<1> QED
  BY <1>1, <1>2, <1>3, <1>4 DEF KeepInv, RecordedKept, NewFilesKept

\* A listed name that is to be kept is found in one of the two indices.
LEMMA KeptIsFound ==
  ASSUME TypeOK, KeepInv, NEW n \in Kept, n \in listed, n \notin FileRecs
  PROVE  n \in cached
BY DEF KeepInv, SavedInv, Kept, Recorded, TypeOK

LEMMA KeepFilter ==
  ASSUME NEW w \in Filters, TypeOK, KeepInv, FilterStep(w)
  PROVE  KeepInv'
<1>1. UNCHANGED <<eraseVars, spc, blobs, cached, listed>>
  BY DEF FilterStep, FilterGet, FilterEmpty, FilterCheck, FilterFile, FilterCached, Lookup,
         FilterPut, FilterFails, listVars
<1>2. listedQueue' \subseteq listedQueue
  BY DEF FilterStep, FilterGet, FilterEmpty, FilterCheck, FilterFile, FilterCached, Lookup,
         FilterPut, FilterFails, listVars
<1>3. SavedInv'
  BY <1>1 DEF KeepInv, SavedInv
<1>4. ASSUME NEW v \in Filters, v # w
      PROVE  fpc'[v] = fpc[v] /\ fname'[v] = fname[v]
  BY <1>4 DEF FilterStep, FilterGet, FilterEmpty, FilterCheck, FilterFile, FilterCached, Lookup,
         FilterPut, FilterFails, FilterStops, TypeOK
<1>5. /\ fpc'[w] \in {"file", "cached", "put"} => fname'[w] \in listed
      /\ fpc'[w] = "cached" => fname'[w] \notin FileRecs
      /\ fpc'[w] = "put" => fname'[w] \notin Kept
  <2>1. CASE FilterGet(w)
    BY <2>1 DEF FilterGet, TypeOK, KeepInv
  <2>2. CASE FilterFile(w)
    BY <2>2 DEF FilterFile, Lookup, TypeOK, KeepInv, FilterInv
  <2>3. CASE FilterCached(w)
    <3>1. fname[w] \in listed /\ fname[w] \notin FileRecs /\ fpc[w] = "cached"
      BY <2>3 DEF FilterCached, Lookup, KeepInv, FilterInv
    <3>2. fname[w] \in Kept => fname[w] \in cached
      BY <3>1, KeptIsFound
    <3> QED
      BY <2>3, <3>1, <3>2 DEF FilterCached, Lookup, TypeOK
  <2>4. CASE FilterEmpty(w) \/ FilterCheck(w) \/ FilterPut(w) \/ FilterFails(w)
    BY <2>4 DEF FilterEmpty, FilterCheck, FilterPut, FilterFails, FilterStops, TypeOK
  <2> QED
    BY <2>1, <2>2, <2>3, <2>4 DEF FilterStep
<1>6. FilterInv'
  BY <1>1, <1>4, <1>5 DEF KeepInv, FilterInv
<1>7. EraseInv'
  <2>1. filteredQueue' = filteredQueue \/ FilterPut(w)
    BY DEF FilterStep, FilterGet, FilterEmpty, FilterCheck, FilterFile, FilterCached, Lookup,
           FilterFails
  <2>2. FilterPut(w) => /\ fname[w] \notin Kept
                        /\ filteredQueue' = filteredQueue \cup {fname[w]}
    BY DEF FilterPut, KeepInv, FilterInv
  <2> QED
    BY <1>1, <2>1, <2>2 DEF KeepInv, EraseInv, eraseVars
<1> QED
  BY <1>1, <1>2, <1>3, <1>6, <1>7 DEF KeepInv, RecordedKept, NewFilesKept

LEMMA KeepErase ==
  ASSUME NEW e \in Erasers, TypeOK, KeepInv, EraseStep(e)
  PROVE  KeepInv'
<1>1. UNCHANGED <<listVars, filterVars, cached, spc>>
  BY DEF EraseStep, EraseGet, EraseEmpty, EraseCheck, Erase, EraseFails
<1>2. blobs' \subseteq blobs /\ \A n \in Kept : n \in blobs => n \in blobs'
  BY DEF EraseStep, EraseGet, EraseEmpty, EraseCheck, Erase, EraseFails, KeepInv, EraseInv
<1>3. EraseInv'
  BY DEF EraseStep, EraseGet, EraseEmpty, EraseCheck, Erase, EraseFails, KeepInv, EraseInv, TypeOK
<1>4. SavedInv'
  BY <1>1, <1>2 DEF KeepInv, SavedInv, Kept, listVars
<1>5. FilterInv'
  BY <1>1 DEF KeepInv, FilterInv, filterVars, listVars
<1> QED
  BY <1>1, <1>2, <1>3, <1>4, <1>5
  DEF KeepInv, RecordedKept, NewFilesKept, Kept, Recorded, listVars

LEMMA KeepSave ==
  ASSUME NEW n \in Saved, TypeOK, KeepInv, SaveStep(n)
  PROVE  KeepInv'
<1>1. UNCHANGED <<listVars, filterVars, eraseVars, filteredQueue>>
  BY DEF SaveStep, SaveRecord, SaveExists, SavePut, SaveVerify
<1>2. blobs \subseteq blobs' /\ cached \subseteq cached'
  BY DEF SaveStep, SaveRecord, SaveExists, SavePut, SaveVerify
<1>3. FilterInv' /\ EraseInv'
  BY <1>1 DEF KeepInv, FilterInv, EraseInv, filterVars, eraseVars, listVars
<1>4. SavedInv' /\ NewFilesKept'
  <2> SUFFICES ASSUME NEW m \in Saved \ Orphans
               PROVE  /\ spc'[m] = "record" /\ m \notin Recorded => m \notin blobs' \cup listed'
                      /\ spc'[m] # "record" => m \in cached'
                      /\ spc'[m] = "verify" => m \in blobs'
                      /\ spc'[m] = "saved" => m \in blobs'
    BY DEF SavedInv, NewFilesKept
  <2>1. CASE m = n
    BY <1>1, <1>2, <2>1 DEF SaveStep, SaveRecord, SaveExists, SavePut, SaveVerify, KeepInv,
       SavedInv, TypeOK
  <2>2. CASE m # n
    <3>1. spc'[m] = spc[m] /\ (m \in blobs' => m \in blobs) /\ listed' = listed
      BY <1>1, <2>2 DEF SaveStep, SaveRecord, SaveExists, SavePut, SaveVerify, TypeOK, listVars
    <3> QED
      BY <1>2, <3>1 DEF KeepInv, SavedInv, NewFilesKept
  <2> QED
    BY <2>1, <2>2
<1> QED
  BY <1>1, <1>2, <1>3, <1>4 DEF KeepInv, RecordedKept, listVars

(***************************************************************************)
(* No name on its way to an eraser has an entry or is being stored: the    *)
(* inductive invariant of the cleanup.                                     *)
(***************************************************************************)
THEOREM CleanupInvariant == Spec => []KeepInv
<1>1. TypeOK /\ KeepInv /\ [Next]_vars => KeepInv'
  <2> SUFFICES ASSUME TypeOK, KeepInv, [Next]_vars PROVE KeepInv'
    OBVIOUS
  <2>1. CASE UNCHANGED vars
    BY <2>1 DEF vars, listVars, filterVars, eraseVars, KeepInv, SavedInv, FilterInv, EraseInv,
       RecordedKept, NewFilesKept
  <2> QED
    BY <2>1, KeepList, KeepFilter, KeepErase, KeepSave DEF Next, Finished
<1> QED
  BY <1>1, KeepInit, CleanupTypeCorrect, PTL DEF Spec

(***************************************************************************)
(* A file with an entry in the file or cached_file index is never erased.  *)
(***************************************************************************)
THEOREM RecordedStay == Spec => []RecordedKept
<1>1. KeepInv => RecordedKept
  BY DEF KeepInv
<1> QED
  BY <1>1, CleanupInvariant, PTL

(***************************************************************************)
(* A file stored in the cache for the first time during the cleanup is not *)
(* erased, because CacheStore.save writes the entry before the file.       *)
(***************************************************************************)
THEOREM NewFilesStay == Spec => []NewFilesKept
<1>1. KeepInv => NewFilesKept
  BY DEF KeepInv
<1> QED
  BY <1>1, CleanupInvariant, PTL
-----------------------------------------------------------------------------
\* A set of numbers that has 0, and with each number the next one, has them all.
LEMMA AllNumbers ==
  ASSUME NEW P \in SUBSET Nat, 0 \in P, \A n \in P : n + 1 \in P
  PROVE  P = Nat
<1> SUFFICES ASSUME Nat \ P # {} PROVE FALSE
  OBVIOUS
<1>1. PICK n \in Nat \ P : \A m \in Nat \ P : <<m, n>> \notin OpToRel(<, Nat)
  BY NatLessThanWellFounded, WFMin
<1>2. n # 0 /\ n \in Nat
  BY <1>1
<1>3. n - 1 \in Nat /\ n - 1 < n /\ n = (n - 1) + 1
  BY <1>2
<1>4. <<n - 1, n>> \in OpToRel(<, Nat)
  BY <1>2, <1>3 DEF OpToRel
<1>5. n - 1 \in P
  BY <1>1, <1>3, <1>4
<1> QED
  BY <1>1, <1>3, <1>5

Any(s) == CHOOSE x \in s : TRUE

\* The subsets of a finite set, all reached by adding one element after the other.
LEMMA AllSubsets ==
  ASSUME NEW S, IsFiniteSet(S), NEW P \in SUBSET SUBSET S,
         \A s \in SUBSET S : s = {} \/ s \ {Any(s)} \in P => s \in P
  PROVE  P = SUBSET S
<1> DEFINE N == {n \in Nat : \A s \in SUBSET S : Cardinality(s) = n => s \in P}
<1>1. \A s \in SUBSET S : IsFiniteSet(s) /\ Cardinality(s) \in Nat
  BY FS_Subset, FS_CardinalityType
<1>2. 0 \in N
  BY <1>1, FS_EmptySet
<1>3. ASSUME NEW n \in N PROVE n + 1 \in N
  <2>1. ASSUME NEW s \in SUBSET S, Cardinality(s) = n + 1 PROVE s \in P
    <3>1. s # {}
      BY <2>1, FS_EmptySet
    <3>2. Any(s) \in s
      BY <3>1 DEF Any
    <3>3. Cardinality(s \ {Any(s)}) = Cardinality(s) - 1 /\ n \in Nat
      BY <1>1, <3>2, FS_RemoveElement
    <3>4. s \ {Any(s)} \in SUBSET S /\ Cardinality(s \ {Any(s)}) = n
      BY <2>1, <3>3
    <3> QED
      BY <3>4
  <2> QED
    BY <2>1
<1>4. N = Nat
  <2> HIDE DEF N
  <2>1. N \in SUBSET Nat
    BY DEF N
  <2> QED
    BY <1>2, <1>3, <2>1, AllNumbers
<1> QED
  BY <1>1, <1>4

\* One step of the fold: the term of the chosen element and the fold of the rest.
Step(g, iter, s) == IF s = {} THEN 0 ELSE g[Any(s)] + iter[s \ {Any(s)}]

\* The sum of g over S.
Sum(g, S) == MapThenSumSet(LAMBDA x : g[x], S)

\* The function by which MapThenSumSet adds up.
Adder(g, S) == CHOOSE iter : iter = [s \in SUBSET S |-> Step(g, iter, s)]

LEMMA SumIsAdder ==
  ASSUME NEW g, NEW S
  PROVE  Sum(g, S) = Adder(g, S)[S]
BY DEF Sum, MapThenSumSet, MapThenFoldSet, Adder, Step, Any

\* There is such a function.
LEMMA AdderExists ==
  ASSUME NEW g, NEW S, IsFiniteSet(S)
  PROVE  \E iter : iter = [s \in SUBSET S |-> Step(g, iter, s)]
<1> DEFINE Upto(n) == {s \in SUBSET S : Cardinality(s) <= n}
           Has(n) == \E iter : iter = [s \in Upto(n) |-> Step(g, iter, s)]
           N == {n \in Nat : Has(n)}
<1>1. \A s \in SUBSET S : IsFiniteSet(s) /\ Cardinality(s) \in Nat
  BY FS_Subset, FS_CardinalityType
<1>2. \A n \in Nat : \A s \in Upto(n + 1) : s # {} => s \ {Any(s)} \in Upto(n)
  <2> SUFFICES ASSUME NEW n \in Nat, NEW s \in Upto(n + 1), s # {}
               PROVE  s \ {Any(s)} \in Upto(n)
    OBVIOUS
  <2>1. Any(s) \in s
    BY DEF Any
  <2>2. Cardinality(s \ {Any(s)}) = Cardinality(s) - 1
    BY <1>1, <2>1, FS_RemoveElement
  <2> QED
    BY <1>1, <2>2
<1>3. 0 \in N
  <2>1. \A s \in Upto(0) : s = {}
    BY <1>1, FS_EmptySet
  <2> DEFINE f == [s \in Upto(0) |-> 0]
  <2>2. \A s \in Upto(0) : Step(g, f, s) = 0
    BY <2>1 DEF Step
  <2>3. f = [s \in Upto(0) |-> Step(g, f, s)]
    BY <2>2
  <2> QED
    BY <2>3
<1>4. ASSUME NEW n \in N PROVE n + 1 \in N
  <2>1. PICK f : f = [s \in Upto(n) |-> Step(g, f, s)]
    OBVIOUS
  <2> DEFINE h == [s \in Upto(n + 1) |-> Step(g, f, s)]
  <2>2. n \in Nat /\ Upto(n) \subseteq Upto(n + 1)
    BY <1>1
  <2> HIDE DEF Upto
  <2>3. \A s \in Upto(n) : h[s] = f[s]
    BY <2>1, <2>2
  <2> HIDE DEF h
  <2>4. \A s \in Upto(n + 1) : Step(g, f, s) = Step(g, h, s)
    BY <1>2, <2>2, <2>3 DEF Step
  <2>5. h = [s \in Upto(n + 1) |-> Step(g, h, s)]
    BY <2>4 DEF h
  <2> QED
    BY <2>2, <2>5
<1>5. N = Nat
  <2> HIDE DEF N
  <2>1. N \in SUBSET Nat
    BY DEF N
  <2> QED
    BY <1>3, <1>4, <2>1, AllNumbers
<1>6. Cardinality(S) \in Nat /\ \A s \in SUBSET S : Cardinality(s) <= Cardinality(S)
  BY FS_Subset, FS_CardinalityType
<1>7. Upto(Cardinality(S)) = SUBSET S
  BY <1>6
<1> QED
  BY <1>5, <1>6, <1>7

LEMMA AdderAdds ==
  ASSUME NEW g, NEW S, IsFiniteSet(S), NEW s \in SUBSET S
  PROVE  Adder(g, S)[s] = Step(g, Adder(g, S), s)
<1>1. Adder(g, S) = [t \in SUBSET S |-> Step(g, Adder(g, S), t)]
  BY AdderExists DEF Adder
<1> QED
  BY <1>1

LEMMA AdderType ==
  ASSUME NEW S, IsFiniteSet(S), NEW g \in [S -> Nat]
  PROVE  \A s \in SUBSET S : Adder(g, S)[s] \in Nat
<1> DEFINE P == {s \in SUBSET S : Adder(g, S)[s] \in Nat}
<1>1. ASSUME NEW s \in SUBSET S, s = {} \/ s \ {Any(s)} \in P
      PROVE  s \in P
  <2>1. CASE s = {}
    BY <2>1, AdderAdds DEF Step
  <2>2. CASE s # {}
    <3>1. Any(s) \in S
      BY <2>2 DEF Any
    <3> QED
      BY <1>1, <2>2, <3>1, AdderAdds DEF Step
  <2> QED
    BY <2>1, <2>2
<1>2. P = SUBSET S
  <2> HIDE DEF P
  <2>1. P \in SUBSET SUBSET S
    BY DEF P
  <2> QED
    BY <1>1, <2>1, AllSubsets
<1> QED
  BY <1>2

\* A sum of natural numbers is one.
LEMMA SumType ==
  ASSUME NEW S, IsFiniteSet(S), NEW g \in [S -> Nat]
  PROVE  Sum(g, S) \in Nat
BY SumIsAdder, AdderType

\* A sum of zeros is zero.
LEMMA SumOfZeros ==
  ASSUME NEW S, IsFiniteSet(S)
  PROVE  Sum([x \in S |-> 0], S) = 0
<1> DEFINE g == [x \in S |-> 0]
           P == {s \in SUBSET S : Adder(g, S)[s] = 0}
<1>1. ASSUME NEW s \in SUBSET S, s = {} \/ s \ {Any(s)} \in P
      PROVE  s \in P
  <2>1. CASE s = {}
    BY <2>1, AdderAdds DEF Step
  <2>2. CASE s # {}
    <3>1. g[Any(s)] = 0
      BY <2>2 DEF Any
    <3> HIDE DEF g
    <3> QED
      BY <1>1, <2>2, <3>1, AdderAdds DEF Step
  <2> QED
    BY <2>1, <2>2
<1>2. P = SUBSET S
  <2> HIDE DEF P
  <2>1. P \in SUBSET SUBSET S
    BY DEF P
  <2> QED
    BY <1>1, <2>1, AllSubsets
<1>3. Adder(g, S)[S] = 0
  BY <1>2
<1> QED
  BY <1>3, SumIsAdder

\* One more for one of the terms is one more for the sum.
LEMMA SumGrows ==
  ASSUME NEW S, IsFiniteSet(S), NEW g \in [S -> Nat], NEW x \in S
  PROVE  Sum([g EXCEPT ![x] = @ + 1], S) = Sum(g, S) + 1
<1> DEFINE h == [g EXCEPT ![x] = @ + 1]
           P == {s \in SUBSET S : Adder(h, S)[s] = Adder(g, S)[s] + IF x \in s THEN 1 ELSE 0}
<1>1. h \in [S -> Nat] /\ h[x] = g[x] + 1 /\ \A y \in S \ {x} : h[y] = g[y]
  OBVIOUS
<1> HIDE DEF h
<1>2. ASSUME NEW s \in SUBSET S, s = {} \/ s \ {Any(s)} \in P
      PROVE  s \in P
  <2>1. CASE s = {}
    <3>1. Adder(h, S)[s] = 0 /\ Adder(g, S)[s] = 0
      BY <2>1, AdderAdds DEF Step
    <3> QED
      BY <2>1, <3>1
  <2>2. CASE s # {}
    <3>1. Any(s) \in s /\ Any(s) \in S
      BY <2>2 DEF Any
    <3>2. /\ Adder(h, S)[s] = h[Any(s)] + Adder(h, S)[s \ {Any(s)}]
          /\ Adder(g, S)[s] = g[Any(s)] + Adder(g, S)[s \ {Any(s)}]
      BY <2>2, AdderAdds DEF Step
    <3>3. /\ Adder(h, S)[s \ {Any(s)}] \in Nat /\ Adder(g, S)[s \ {Any(s)}] \in Nat
          /\ g[Any(s)] \in Nat /\ h[Any(s)] \in Nat
      BY <1>1, <3>1, AdderType
    <3> DEFINE rest == s \ {Any(s)}
    <3>4. Adder(h, S)[rest] = Adder(g, S)[rest] + IF x \in rest THEN 1 ELSE 0
      BY <1>2, <2>2
    <3>5. CASE Any(s) = x
      <4>1. x \notin rest /\ x \in s
        BY <3>1, <3>5
      <4> QED
        BY <1>1, <3>2, <3>3, <3>4, <3>5, <4>1
    <3>6. CASE Any(s) # x
      <4>1. (x \in rest) = (x \in s) /\ h[Any(s)] = g[Any(s)]
        BY <1>1, <3>1, <3>6
      <4> QED
        BY <3>2, <3>3, <3>4, <4>1
    <3> QED
      BY <3>5, <3>6
  <2> QED
    BY <2>1, <2>2
<1>3. P = SUBSET S
  <2> HIDE DEF P
  <2>1. P \in SUBSET SUBSET S
    BY DEF P
  <2> QED
    BY <1>2, <2>1, AllSubsets
<1>4. Adder(h, S)[S] = Adder(g, S)[S] + 1
  BY <1>3
<1> QED
  BY <1>4, SumIsAdder DEF h
-----------------------------------------------------------------------------
\* The names that filter workers have, and those that erase workers have.
HeldNames  == {fname[w] : w \in Holding}
TakenNames == {ename[e] : e \in Erasing}

\* A listed name is in one place at most, and with one worker.
PlacesInv ==
  /\ Pending \subseteq listed
  /\ listedQueue \cap (filteredQueue \cup failed \cup HeldNames \cup TakenNames) = {}
  /\ filteredQueue \cap (failed \cup HeldNames \cup TakenNames) = {}
  /\ failed \cap (HeldNames \cup TakenNames) = {}
  /\ HeldNames \cap TakenNames = {}
  /\ \A v, w \in Holding : fname[v] = fname[w] => v = w
  /\ \A d, e \in Erasing : ename[d] = ename[e] => d = e

\* AddsUp with the sums named.
AddsUp == Cardinality(listed) = Sum(total, Filters) + Sum(erased, Erasers) + Cardinality(Pending)

LEMMA Counts ==
  ASSUME TypeOK, PlacesInv
  PROVE  /\ IsFiniteSet(listed) /\ IsFiniteSet(Pending)
         /\ Cardinality(listed) \in Nat /\ Cardinality(Pending) \in Nat
         /\ Sum(total, Filters) \in Nat /\ Sum(erased, Erasers) \in Nat
<1>1. IsFiniteSet(listed) /\ IsFiniteSet(Pending)
  BY CleanupAssumption, FS_Subset DEF TypeOK, PlacesInv
<1>2. Sum(total, Filters) \in Nat /\ Sum(erased, Erasers) \in Nat
  BY CleanupAssumption, SumType DEF TypeOK
<1> QED
  BY <1>1, <1>2, FS_CardinalityType

\* A name moves on without being counted.
LEMMA CountStays ==
  ASSUME AddsUp, Pending' = Pending, UNCHANGED <<listed, total, erased>>
  PROVE  AddsUp'
BY DEF AddsUp

LEMMA PlacesInit == Init => PlacesInv /\ AddsUp
<1> SUFFICES ASSUME Init PROVE PlacesInv /\ AddsUp
  OBVIOUS
<1>1. Holding = {} /\ Erasing = {}
  BY DEF Init, Holding, Erasing
<1>2. HeldNames = {} /\ TakenNames = {} /\ Pending = {} /\ listed = {}
  BY <1>1 DEF Init, HeldNames, TakenNames, Pending
<1>3. PlacesInv
  BY <1>1, <1>2 DEF Init, PlacesInv
<1>4. Sum(total, Filters) = 0 /\ Sum(erased, Erasers) = 0
  <2>1. total = [w \in Filters |-> 0] /\ erased = [e \in Erasers |-> 0]
    BY DEF Init
  <2> QED
    BY <2>1, CleanupAssumption, SumOfZeros
<1>5. AddsUp
  BY <1>2, <1>4, FS_EmptySet DEF AddsUp
<1> QED
  BY <1>3, <1>5

LEMMA PendingIs ==
  Pending = listedQueue \cup filteredQueue \cup failed \cup HeldNames \cup TakenNames
BY DEF Pending, HeldNames, TakenNames

\* A name is listed once.
LEMMA PlacesList ==
  ASSUME TypeOK, PlacesInv, AddsUp, ListStep
  PROVE  PlacesInv' /\ AddsUp'
<1>1. UNCHANGED <<fpc, fname, total, epc, ename, erased, filteredQueue, failed>>
  BY DEF ListStep, List, ListEnd, ListFails, filterVars, eraseVars
<1>2. UNCHANGED <<Holding, Erasing, HeldNames, TakenNames>>
  BY <1>1 DEF Holding, Erasing, HeldNames, TakenNames
<1>3. CASE ListEnd \/ ListFails
  <2>1. UNCHANGED <<listed, listedQueue>>
    BY <1>3 DEF ListEnd, ListFails
  <2>2. Pending' = Pending
    BY <1>1, <2>1, <1>2 DEF Pending, HeldNames, TakenNames
  <2>3. PlacesInv'
    BY <1>1, <1>2, <2>1, <2>2 DEF PlacesInv
  <2> QED
    BY <1>1, <2>1, <2>2, <2>3, CountStays
<1>4. ASSUME NEW n \in Names, List(n) PROVE PlacesInv' /\ AddsUp'
  <2>1. n \notin listed /\ listed' = listed \cup {n} /\ listedQueue' = listedQueue \cup {n}
    BY <1>4 DEF List
  <2>2. Pending' = Pending \cup {n}
    BY <1>1, <1>2, <2>1 DEF Pending, HeldNames, TakenNames
  <2>3. n \notin Pending /\ n \notin filteredQueue \cup failed \cup HeldNames \cup TakenNames
    BY <2>1, PendingIs DEF PlacesInv
  <2>4. PlacesInv'
    BY <1>1, <1>2, <2>1, <2>2, <2>3 DEF PlacesInv
  <2>5. /\ Cardinality(listed') = Cardinality(listed) + 1
        /\ Cardinality(Pending') = Cardinality(Pending) + 1
    BY <2>1, <2>2, <2>3, Counts, FS_AddElement
  <2>6. AddsUp'
    BY <1>1, <2>5, Counts DEF AddsUp
  <2> QED
    BY <2>4, <2>6
<1> QED
  BY <1>3, <1>4 DEF ListStep

\* A filter worker gets a name, goes on with it, or is done with it.
LEMMA HoldingGets ==
  ASSUME TypeOK, NEW w \in Filters, NEW n, fpc[w] = "get", n \in Names,
         fname' = [fname EXCEPT ![w] = n], fpc' = [fpc EXCEPT ![w] = "file"]
  PROVE  /\ Holding' = Holding \cup {w} /\ w \notin Holding /\ HeldNames' = HeldNames \cup {n}
         /\ fname'[w] = n /\ \A v \in Holding : fname'[v] = fname[v]
<1>1. fname'[w] = n /\ \A v \in Filters \ {w} : fname'[v] = fname[v] /\ fpc'[v] = fpc[v]
  BY DEF TypeOK
<1>2. fpc'[w] = "file"
  BY DEF TypeOK
<1>3. Holding' = Holding \cup {w} /\ w \notin Holding
  BY <1>1, <1>2 DEF Holding
<1> QED
  BY <1>1, <1>3 DEF HeldNames, Holding

LEMMA HoldingGoesOn ==
  ASSUME TypeOK, NEW w \in Filters, NEW to, fname' = fname, fpc' = [fpc EXCEPT ![w] = to],
         fpc[w] \in {"file", "cached", "put"} <=> to \in {"file", "cached", "put"}
  PROVE  Holding' = Holding /\ HeldNames' = HeldNames
BY DEF TypeOK, Holding, HeldNames

LEMMA HoldingIsDone ==
  ASSUME TypeOK, NEW w \in Filters, NEW to, fname' = fname, fpc' = [fpc EXCEPT ![w] = to],
         fpc[w] \in {"file", "cached", "put"}, to \notin {"file", "cached", "put"},
         \A v \in Holding : fname[v] = fname[w] => v = w
  PROVE  w \in Holding /\ Holding' = Holding \ {w} /\ HeldNames' = HeldNames \ {fname[w]}
<1>1. Holding' = Holding \ {w} /\ w \in Holding
  BY DEF TypeOK, Holding
<1> QED
  BY <1>1 DEF HeldNames

\* The same of an erase worker.
LEMMA ErasingGets ==
  ASSUME TypeOK, NEW e \in Erasers, NEW n, epc[e] = "get", n \in Names,
         ename' = [ename EXCEPT ![e] = n], epc' = [epc EXCEPT ![e] = "erase"]
  PROVE  /\ Erasing' = Erasing \cup {e} /\ e \notin Erasing /\ TakenNames' = TakenNames \cup {n}
         /\ ename'[e] = n /\ \A d \in Erasing : ename'[d] = ename[d]
<1>1. ename'[e] = n /\ \A d \in Erasers \ {e} : ename'[d] = ename[d] /\ epc'[d] = epc[d]
  BY DEF TypeOK
<1>2. epc'[e] = "erase"
  BY DEF TypeOK
<1>3. Erasing' = Erasing \cup {e} /\ e \notin Erasing
  BY <1>1, <1>2 DEF Erasing
<1> QED
  BY <1>1, <1>3 DEF TakenNames, Erasing

LEMMA ErasingIsDone ==
  ASSUME TypeOK, NEW e \in Erasers, NEW to, ename' = ename, epc' = [epc EXCEPT ![e] = to],
         epc[e] = "erase", to # "erase",
         \A d \in Erasing : ename[d] = ename[e] => d = e
  PROVE  e \in Erasing /\ Erasing' = Erasing \ {e} /\ TakenNames' = TakenNames \ {ename[e]}
<1>1. Erasing' = Erasing \ {e} /\ e \in Erasing
  BY DEF TypeOK, Erasing
<1> QED
  BY <1>1 DEF TakenNames

LEMMA PlacesFilter ==
  ASSUME NEW w \in Filters, TypeOK, PlacesInv, AddsUp, FilterStep(w)
  PROVE  PlacesInv' /\ AddsUp'
<1>1. UNCHANGED <<listed, epc, ename, erased>>
  BY DEF FilterStep, FilterGet, FilterEmpty, FilterCheck, FilterFile, FilterCached, Lookup,
         FilterPut, FilterFails, listVars, eraseVars
<1>2. UNCHANGED <<Erasing, TakenNames>>
  BY <1>1 DEF Erasing, TakenNames
<1>3. CASE FilterGet(w)
  <2>1. PICK n \in listedQueue : /\ listedQueue' = listedQueue \ {n}
                                 /\ fname' = [fname EXCEPT ![w] = n]
    BY <1>3 DEF FilterGet
  <2>2. /\ Holding' = Holding \cup {w} /\ w \notin Holding /\ HeldNames' = HeldNames \cup {n}
        /\ fname'[w] = n /\ \A v \in Holding : fname'[v] = fname[v]
    <3>1. n \in Names /\ fpc[w] = "get" /\ fpc' = [fpc EXCEPT ![w] = "file"]
      BY <1>3, <2>1 DEF FilterGet, TypeOK
    <3> QED
      BY <2>1, <3>1, HoldingGets
  <2>3. UNCHANGED <<filteredQueue, failed, total>>
    BY <1>3 DEF FilterGet
  <2>4. Pending' = Pending
    BY <1>2, <2>1, <2>2, <2>3 DEF Pending, HeldNames, TakenNames
  <2>5. n \notin HeldNames /\ n \notin filteredQueue \cup failed \cup TakenNames
    BY <2>1 DEF PlacesInv
  <2>6. \A v \in Holding : fname[v] # n
    BY <2>5 DEF HeldNames
  <2>7. \A u, v \in Holding' : fname'[u] = fname'[v] => u = v
    BY <2>2, <2>6 DEF PlacesInv
  <2>8. \A d, e \in Erasing' : ename'[d] = ename'[e] => d = e
    BY <1>1, <1>2 DEF PlacesInv
  <2>9. PlacesInv'
    BY <1>1, <1>2, <2>1, <2>2, <2>3, <2>4, <2>5, <2>7, <2>8 DEF PlacesInv
  <2> QED
    BY <1>1, <2>3, <2>4, <2>9, CountStays
<1>4. ASSUME NEW to, fname' = fname, fpc' = [fpc EXCEPT ![w] = to],
             fpc[w] \in {"file", "cached", "put"} <=> to \in {"file", "cached", "put"},
             UNCHANGED <<listedQueue, filteredQueue, failed, total>>
      PROVE  PlacesInv' /\ AddsUp'
  <2>1. Holding' = Holding /\ HeldNames' = HeldNames
    BY <1>4, HoldingGoesOn
  <2>2. Pending' = Pending
    BY <1>2, <1>4, <2>1 DEF Pending, HeldNames, TakenNames
  <2>3. PlacesInv'
    BY <1>1, <1>2, <1>4, <2>1, <2>2 DEF PlacesInv
  <2> QED
    BY <1>1, <1>4, <2>2, <2>3, CountStays
<1>5. ASSUME NEW to, fname' = fname, fpc' = [fpc EXCEPT ![w] = to], listedQueue' = listedQueue,
             fpc[w] \in {"file", "cached", "put"}, to \notin {"file", "cached", "put"}
      PROVE  /\ HeldNames' = HeldNames \ {fname[w]} /\ fname[w] \in HeldNames
             /\ \A u, v \in Holding' : fname'[u] = fname'[v] => u = v
             /\ \A d, e \in Erasing' : ename'[d] = ename'[e] => d = e
             /\ fname[w] \notin listedQueue \cup filteredQueue \cup failed \cup TakenNames
             /\ fname[w] \in listed
  <2>1. w \in Holding /\ Holding' = Holding \ {w} /\ HeldNames' = HeldNames \ {fname[w]}
    <3>1. w \in Holding
      BY <1>5 DEF Holding
    <3>2. \A v \in Holding : fname[v] = fname[w] => v = w
      BY <3>1 DEF PlacesInv
    <3> QED
      BY <1>5, <3>2, HoldingIsDone
  <2>2. fname[w] \in HeldNames
    BY <2>1 DEF HeldNames
  <2> QED
    BY <1>1, <1>2, <1>5, <2>1, <2>2, PendingIs DEF PlacesInv
<1>6. CASE FilterEmpty(w) \/ FilterCheck(w)
  <2>1. PICK to \in {"empty", "get", "done"} : fpc' = [fpc EXCEPT ![w] = to]
    BY <1>6 DEF FilterEmpty, FilterCheck, FilterStops
  <2> QED
    BY <1>4, <1>6, <2>1 DEF FilterEmpty, FilterCheck, FilterStops, listVars
<1>7. ASSUME NEW from \in {"file", "cached"}, NEW to \in {"cached", "put"}, NEW entries,
             Lookup(w, from, to, entries)
      PROVE  PlacesInv' /\ AddsUp'
  <2>1. fpc[w] = from /\ UNCHANGED <<fname, listedQueue, filteredQueue, failed>>
    BY <1>7 DEF Lookup, listVars
  <2>2. CASE fname[w] \notin entries
    BY <1>4, <1>7, <2>1, <2>2 DEF Lookup
  <2>3. CASE fname[w] \in entries
    <3>1. total' = [total EXCEPT ![w] = @ + 1] /\ fpc' = [fpc EXCEPT ![w] = "get"]
      BY <1>7, <2>3 DEF Lookup
    <3>2. /\ HeldNames' = HeldNames \ {fname[w]} /\ fname[w] \in HeldNames
          /\ \A u, v \in Holding' : fname'[u] = fname'[v] => u = v
          /\ \A d, e \in Erasing' : ename'[d] = ename'[e] => d = e
          /\ fname[w] \notin listedQueue \cup filteredQueue \cup failed \cup TakenNames
      BY <1>5, <2>1, <3>1
    <3>3. Pending' = Pending \ {fname[w]} /\ fname[w] \in Pending
      <4>1. Pending' = listedQueue' \cup filteredQueue' \cup failed'
                         \cup HeldNames' \cup TakenNames'
        BY DEF Pending, HeldNames, TakenNames
      <4> QED
        BY <1>2, <2>1, <3>2, <4>1, PendingIs
    <3>4. PlacesInv'
      BY <1>1, <1>2, <2>1, <3>2, <3>3 DEF PlacesInv
    <3>5. Sum(total', Filters) = Sum(total, Filters) + 1
      BY <3>1, CleanupAssumption, SumGrows DEF TypeOK
    <3>6. Cardinality(Pending') = Cardinality(Pending) - 1
      BY <3>3, Counts, FS_RemoveElement
    <3>7. AddsUp'
      BY <1>1, <3>5, <3>6, Counts DEF AddsUp
    <3> QED
      BY <3>4, <3>7
  <2> QED
    BY <2>2, <2>3
<1>8. CASE FilterPut(w)
  <2>1. /\ fpc[w] = "put" /\ fpc' = [fpc EXCEPT ![w] = "get"]
        /\ UNCHANGED <<fname, listedQueue, failed, total>>
        /\ filteredQueue' = filteredQueue \cup {fname[w]}
    BY <1>8 DEF FilterPut, listVars
  <2>2. /\ HeldNames' = HeldNames \ {fname[w]} /\ fname[w] \in HeldNames
        /\ \A u, v \in Holding' : fname'[u] = fname'[v] => u = v
        /\ \A d, e \in Erasing' : ename'[d] = ename'[e] => d = e
        /\ fname[w] \notin listedQueue \cup filteredQueue \cup failed \cup TakenNames
    BY <1>5, <2>1
  <2>3. Pending' = Pending
    BY <1>2, <2>1, <2>2 DEF Pending, HeldNames, TakenNames
  <2>4. PlacesInv'
    BY <1>1, <1>2, <2>1, <2>2, <2>3 DEF PlacesInv
  <2> QED
    BY <1>1, <2>1, <2>3, <2>4, CountStays
<1>9. CASE FilterFails(w)
  <2>1. /\ fpc' = [fpc EXCEPT ![w] = "failed"]
        /\ UNCHANGED <<fname, listedQueue, filteredQueue, total>>
    BY <1>9 DEF FilterFails, FilterStops, listVars
  <2>2. CASE fpc[w] = "get"
    <3>1. failed' = failed
      BY <1>9, <2>2 DEF FilterFails
    <3> QED
      BY <1>4, <2>1, <2>2, <3>1
  <2>3. CASE fpc[w] # "get"
    <3>1. failed' = failed \cup {fname[w]} /\ fpc[w] \in {"file", "cached", "put"}
      BY <1>9, <2>3 DEF FilterFails
    <3>2. /\ HeldNames' = HeldNames \ {fname[w]} /\ fname[w] \in HeldNames
          /\ \A u, v \in Holding' : fname'[u] = fname'[v] => u = v
          /\ \A d, e \in Erasing' : ename'[d] = ename'[e] => d = e
          /\ fname[w] \notin listedQueue \cup filteredQueue \cup failed \cup TakenNames
      BY <1>5, <2>1, <3>1
    <3>3. Pending' = Pending
      BY <1>2, <2>1, <3>1, <3>2 DEF Pending, HeldNames, TakenNames
    <3>4. PlacesInv'
      BY <1>1, <1>2, <2>1, <3>1, <3>2, <3>3 DEF PlacesInv
    <3> QED
      BY <1>1, <2>1, <3>3, <3>4, CountStays
  <2> QED
    BY <2>2, <2>3
<1> QED
  BY <1>3, <1>6, <1>7, <1>8, <1>9 DEF FilterStep, FilterFile, FilterCached

LEMMA PlacesErase ==
  ASSUME NEW e \in Erasers, TypeOK, PlacesInv, AddsUp, EraseStep(e)
  PROVE  PlacesInv' /\ AddsUp'
<1>1. UNCHANGED <<listed, listedQueue, fpc, fname, total>>
  BY DEF EraseStep, EraseGet, EraseEmpty, EraseCheck, Erase, EraseFails, listVars, filterVars
<1>2. UNCHANGED <<Holding, HeldNames>>
  BY <1>1 DEF Holding, HeldNames
<1>3. CASE EraseGet(e)
  <2>1. PICK n \in filteredQueue : /\ filteredQueue' = filteredQueue \ {n}
                                   /\ ename' = [ename EXCEPT ![e] = n]
    BY <1>3 DEF EraseGet
  <2>2. /\ Erasing' = Erasing \cup {e} /\ e \notin Erasing /\ TakenNames' = TakenNames \cup {n}
        /\ ename'[e] = n /\ \A d \in Erasing : ename'[d] = ename[d]
    <3>1. n \in Names /\ epc[e] = "get" /\ epc' = [epc EXCEPT ![e] = "erase"]
      BY <1>3, <2>1 DEF EraseGet, TypeOK
    <3> QED
      BY <2>1, <3>1, ErasingGets
  <2>3. UNCHANGED <<failed, erased>>
    BY <1>3 DEF EraseGet
  <2>4. Pending' = Pending
    BY <1>1, <1>2, <2>1, <2>2, <2>3 DEF Pending, HeldNames, TakenNames
  <2>5. n \notin TakenNames /\ n \notin listedQueue \cup failed \cup HeldNames
    BY <2>1 DEF PlacesInv
  <2>6. \A d \in Erasing : ename[d] # n
    BY <2>5 DEF TakenNames
  <2>7. \A c, d \in Erasing' : ename'[c] = ename'[d] => c = d
    BY <2>2, <2>6 DEF PlacesInv
  <2>8. \A v, w \in Holding' : fname'[v] = fname'[w] => v = w
    BY <1>1, <1>2 DEF PlacesInv
  <2>9. PlacesInv'
    BY <1>1, <1>2, <2>1, <2>2, <2>3, <2>4, <2>5, <2>7, <2>8 DEF PlacesInv
  <2> QED
    BY <1>1, <2>3, <2>4, <2>9, CountStays
<1>4. ASSUME NEW to, epc' = [epc EXCEPT ![e] = to], epc[e] # "erase", to # "erase",
             UNCHANGED <<ename, filteredQueue, failed, erased>>
      PROVE  PlacesInv' /\ AddsUp'
  <2>1. Erasing' = Erasing /\ TakenNames' = TakenNames
    BY <1>4 DEF Erasing, TakenNames, TypeOK
  <2>2. Pending' = Pending
    BY <1>1, <1>2, <1>4, <2>1 DEF Pending, HeldNames, TakenNames
  <2>3. PlacesInv'
    BY <1>1, <1>2, <1>4, <2>1, <2>2 DEF PlacesInv
  <2> QED
    BY <1>1, <1>4, <2>2, <2>3, CountStays
<1>5. ASSUME NEW to, epc' = [epc EXCEPT ![e] = to], epc[e] = "erase", to # "erase",
             ename' = ename
      PROVE  /\ TakenNames' = TakenNames \ {ename[e]} /\ ename[e] \in TakenNames
             /\ \A c, d \in Erasing' : ename'[c] = ename'[d] => c = d
             /\ \A v, w \in Holding' : fname'[v] = fname'[w] => v = w
             /\ ename[e] \notin listedQueue \cup filteredQueue \cup failed \cup HeldNames
  <2>1. e \in Erasing /\ Erasing' = Erasing \ {e} /\ TakenNames' = TakenNames \ {ename[e]}
    <3>1. e \in Erasing
      BY <1>5 DEF Erasing
    <3>2. \A d \in Erasing : ename[d] = ename[e] => d = e
      BY <3>1 DEF PlacesInv
    <3> QED
      BY <1>5, <3>2, ErasingIsDone
  <2>2. ename[e] \in TakenNames
    BY <2>1 DEF TakenNames
  <2> QED
    BY <1>1, <1>2, <1>5, <2>1, <2>2 DEF PlacesInv
<1>6. CASE EraseEmpty(e) \/ EraseCheck(e)
  <2>1. PICK to \in {"empty", "get", "done"} : epc' = [epc EXCEPT ![e] = to]
    BY <1>6 DEF EraseEmpty, EraseCheck
  <2> QED
    BY <1>4, <1>6, <2>1 DEF EraseEmpty, EraseCheck
<1>7. CASE Erase(e)
  <2>1. /\ epc[e] = "erase" /\ epc' = [epc EXCEPT ![e] = "get"]
        /\ erased' = [erased EXCEPT ![e] = @ + 1]
        /\ UNCHANGED <<ename, filteredQueue, failed>>
    BY <1>7 DEF Erase
  <2>2. /\ TakenNames' = TakenNames \ {ename[e]} /\ ename[e] \in TakenNames
        /\ \A c, d \in Erasing' : ename'[c] = ename'[d] => c = d
        /\ \A v, w \in Holding' : fname'[v] = fname'[w] => v = w
        /\ ename[e] \notin listedQueue \cup filteredQueue \cup failed \cup HeldNames
    BY <1>5, <2>1
  <2>3. Pending' = Pending \ {ename[e]} /\ ename[e] \in Pending
    BY <1>1, <1>2, <2>1, <2>2 DEF Pending, HeldNames, TakenNames
  <2>4. PlacesInv'
    BY <1>1, <1>2, <2>1, <2>2, <2>3 DEF PlacesInv
  <2>5. Sum(erased', Erasers) = Sum(erased, Erasers) + 1
    BY <2>1, CleanupAssumption, SumGrows DEF TypeOK
  <2>6. Cardinality(Pending') = Cardinality(Pending) - 1
    BY <2>3, Counts, FS_RemoveElement
  <2>7. AddsUp'
    BY <1>1, <2>5, <2>6, Counts DEF AddsUp
  <2> QED
    BY <2>4, <2>7
<1>8. CASE EraseFails(e)
  <2>1. /\ epc' = [epc EXCEPT ![e] = "failed"]
        /\ UNCHANGED <<ename, filteredQueue, erased>>
    BY <1>8 DEF EraseFails
  <2>2. CASE epc[e] = "get"
    <3>1. failed' = failed
      BY <1>8, <2>2 DEF EraseFails
    <3> QED
      BY <1>4, <2>1, <2>2, <3>1
  <2>3. CASE epc[e] # "get"
    <3>1. failed' = failed \cup {ename[e]} /\ epc[e] = "erase"
      BY <1>8, <2>3 DEF EraseFails
    <3>2. /\ TakenNames' = TakenNames \ {ename[e]} /\ ename[e] \in TakenNames
          /\ \A c, d \in Erasing' : ename'[c] = ename'[d] => c = d
          /\ \A v, w \in Holding' : fname'[v] = fname'[w] => v = w
          /\ ename[e] \notin listedQueue \cup filteredQueue \cup failed \cup HeldNames
      BY <1>5, <2>1, <3>1
    <3>3. Pending' = Pending
      BY <1>1, <1>2, <2>1, <3>1, <3>2 DEF Pending, HeldNames, TakenNames
    <3>4. PlacesInv'
      BY <1>1, <1>2, <2>1, <3>1, <3>2, <3>3 DEF PlacesInv
    <3> QED
      BY <1>1, <2>1, <3>3, <3>4, CountStays
  <2> QED
    BY <2>2, <2>3
<1> QED
  BY <1>3, <1>6, <1>7, <1>8 DEF EraseStep

LEMMA PlacesStutter ==
  ASSUME PlacesInv, AddsUp,
         UNCHANGED <<listVars, filterVars, eraseVars, filteredQueue, failed>>
  PROVE  PlacesInv' /\ AddsUp'
<1>1. UNCHANGED <<Holding, Erasing, HeldNames, TakenNames, Pending>>
  BY DEF Holding, Erasing, HeldNames, TakenNames, Pending, listVars, filterVars, eraseVars
<1>2. PlacesInv'
  BY <1>1 DEF PlacesInv, listVars, filterVars, eraseVars
<1>3. AddsUp'
  BY <1>1, CountStays DEF listVars, filterVars, eraseVars
<1> QED
  BY <1>2, <1>3

(***************************************************************************)
(* The numbers of the returned message account for every listed name: the  *)
(* totals of the workers and the names on their way or lost add up to what *)
(* was listed, in every state, because a name is in one place at a time.   *)
(***************************************************************************)
THEOREM CleanupAddsUp == Spec => []NamesAddUp
<1>1. TypeOK /\ PlacesInv /\ AddsUp /\ [Next]_vars => PlacesInv' /\ AddsUp'
  <2> SUFFICES ASSUME TypeOK, PlacesInv, AddsUp, [Next]_vars
               PROVE  PlacesInv' /\ AddsUp'
    OBVIOUS
  <2>1. CASE UNCHANGED vars
    BY <2>1, PlacesStutter DEF vars
  <2>2. ASSUME NEW n \in Saved, SaveStep(n) PROVE PlacesInv' /\ AddsUp'
    BY <2>2, PlacesStutter DEF SaveStep, SaveRecord, SaveExists, SavePut, SaveVerify
  <2> QED
    BY <2>1, <2>2, PlacesList, PlacesFilter, PlacesErase DEF Next, Finished
<1>2. AddsUp => NamesAddUp
  BY DEF AddsUp, NamesAddUp, Sum
<1> QED
  BY <1>1, <1>2, PlacesInit, CleanupTypeCorrect, PTL DEF Spec
=============================================================================
