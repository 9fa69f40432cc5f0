----------------------------- MODULE DeepPaging -----------------------------
(***************************************************************************)
(* Reading all that a search finds, page by page: ESCollection.search with *)
(* a deep paging id, and scan_with_search_after behind stream_search and   *)
(* keys (datastore/collection.py).  The first request opens a point in     *)
(* time, a snapshot of the index; each page starts after the sort values   *)
(* of the last hit of the page before.  To the sort of the caller, which   *)
(* documents may share, _shard_doc is added as a tie breaker, descending.  *)
(*                                                                         *)
(* A document is a number, that of its _shard_doc.                         *)
(***************************************************************************)
EXTENDS Integers, FiniteSets, Sequences, SequencesExt

CONSTANTS
  PgDocs,        \* the documents, numbers
  PgKey,         \* the value of each in the field they are sorted by
  PgRows,        \* the sizes of a page that are asked for
  MaxPgChanges   \* bound: the documents added or deleted beside the reading

ASSUME PgAssumption ==
  /\ PgDocs \subseteq Nat /\ IsFiniteSet(PgDocs) /\ PgKey \in [PgDocs -> Nat]
  /\ PgRows \subseteq Nat \ {0} /\ MaxPgChanges \in Nat

VARIABLES
  pgIndex,     \* the documents of the index now
  pgChanges,   \* the changes so far
  pgMode,      \* whether pages are asked for by search or by scan
  pgSize,      \* rows, or size
  pgPit,       \* the documents of the point in time
  pgAfter,     \* search_after: the last hit, or {}
  pgOut,       \* what was returned so far
  pgStep       \* "new", "open", "closed", or "failed"

pgVars == <<pgIndex, pgChanges, pgMode, pgSize, pgPit, pgAfter, pgOut, pgStep>>

PgTypeOK ==
  /\ pgIndex \subseteq PgDocs /\ pgPit \subseteq PgDocs
  /\ pgChanges \in 0 .. MaxPgChanges
  /\ pgMode \in {"none", "search", "scan"} /\ pgSize \in PgRows \cup {0}
  /\ pgAfter \subseteq PgDocs
  /\ pgOut \in Seq(PgDocs)
  /\ pgStep \in {"new", "open", "closed", "failed"}

PgInit ==
  /\ pgIndex = PgDocs
  /\ pgChanges = 0
  /\ pgMode = "none" /\ pgSize = 0
  /\ pgPit = {} /\ pgAfter = {} /\ pgOut = <<>>
  /\ pgStep = "new"

\* The others save and delete documents all the while.
ChangeIndex(d) ==
  /\ pgChanges < MaxPgChanges
  /\ pgChanges' = pgChanges + 1
  /\ pgIndex' = IF d \in pgIndex THEN pgIndex \ {d} ELSE pgIndex \cup {d}
  /\ UNCHANGED <<pgMode, pgSize, pgPit, pgAfter, pgOut, pgStep>>

OpenPit(mode, size) ==
  /\ pgStep = "new"
  /\ pgMode' = mode /\ pgSize' = size
  /\ pgPit' = pgIndex
  /\ pgStep' = "open"
  /\ UNCHANGED <<pgIndex, pgChanges, pgAfter, pgOut>>

\* (Fault: without the tie breaker.)
SortsByKey(d, e) == PgKey[d] < PgKey[e]

\* The order of the hits: d comes before e.
SortsBefore(d, e) == PgKey[d] < PgKey[e] \/ (PgKey[d] = PgKey[e] /\ d > e)

HitsAfter == {d \in pgPit : \A last \in pgAfter : SortsBefore(last, d)}

\* The hits of a page come in their order, and before all other documents of D.
FirstHits(D, page) ==
  /\ IsInjective(page)
  /\ \A i, j \in DOMAIN page : i < j => ~SortsBefore(page[j], page[i])
  /\ \A i \in DOMAIN page, d \in D \ ToSet(page) : ~SortsBefore(d, page[i])

PageOf(D) ==
  LET size == IF Cardinality(D) < pgSize THEN Cardinality(D) ELSE pgSize
  IN CHOOSE page \in [1 .. size -> D] : FirstHits(D, page)

\* search closes the point in time at the first page that is not full, a scan
\* at the first that is empty.
Ends(page) == IF pgMode = "search" THEN Len(page) < pgSize ELSE page = <<>>

NextPage ==
  LET page == PageOf(HitsAfter)
  IN /\ pgStep = "open"
     /\ pgOut' = pgOut \o page
     /\ pgAfter' = IF page = <<>> THEN pgAfter ELSE {page[Len(page)]}
     /\ pgStep' = IF Ends(page) THEN "closed" ELSE "open"
     /\ UNCHANGED <<pgIndex, pgChanges, pgMode, pgSize, pgPit>>

\* keep_alive passes between two pages: the next request raises.
PitExpires ==
  /\ pgStep = "open" /\ pgOut # <<>>
  /\ pgStep' = "failed"
  /\ UNCHANGED <<pgIndex, pgChanges, pgMode, pgSize, pgPit, pgAfter, pgOut>>

PgNext ==
  \/ \E d \in PgDocs : ChangeIndex(d)
  \/ \E mode \in {"search", "scan"}, size \in PgRows : OpenPit(mode, size)
  \/ NextPage \/ PitExpires

PgSpec == PgInit /\ [][PgNext]_pgVars

----------------------------------------------------------------------------
\* Properties.

\* The pages taken together hold each document once, and when there is no page
\* to come, all that were there when the reading began, whatever is saved and
\* deleted meanwhile, however many documents share a sort value and wherever
\* the pages end.
PagesWhole ==
  /\ IsInjective(pgOut)
  /\ ToSet(pgOut) \subseteq pgPit
  /\ pgStep = "closed" => ToSet(pgOut) = pgPit
=============================================================================
