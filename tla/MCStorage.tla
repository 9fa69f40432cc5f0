------------------------------ MODULE MCStorage -----------------------------
(***************************************************************************)
(* The machines around the datastore and the filestore, for TLC: the       *)
(* maintenance of the indexes, archiving, the transports of a filestore,   *)
(* reading page by page, and the data structures whose answers are checked *)
(* against a definition of what they should be.  They share no state: part *)
(* says which one runs in a behaviour, the others rest in one of their     *)
(* initial states.                                                         *)
(***************************************************************************)
EXTENDS MCIndexMaintenance, ArchiveMove, FileTransports, DeepPaging, MCFileTree,
        RangeTable, MCMarkings

VARIABLE part

Parts == {"maintenance", "archive", "transports", "paging", "tree", "ranges", "markings"}

maintVars == vars
storageVars == <<part, maintVars, arcVars, fsVars, pgVars, ftVars, rtVars, cmVars>>

\* A machine that rests needs one initial state.
OneStart ==
  /\ ~ autoCreate
  /\ \A i \in Inds : es[i]["hot"].shards = CHOOSE n \in ShardCounts[i] : TRUE

StorageInit ==
  /\ part \in Parts
  /\ Init /\ (part = "maintenance" \/ OneStart)
  /\ ArcInit /\ FsInit /\ PgInit /\ FtInit /\ RtInit /\ CmInit

MaintenancePart ==
  /\ part = "maintenance" /\ Next
  /\ UNCHANGED <<part, arcVars, fsVars, pgVars, ftVars, rtVars, cmVars>>

ArchivePart ==
  /\ part = "archive" /\ ArcNext
  /\ UNCHANGED <<part, maintVars, fsVars, pgVars, ftVars, rtVars, cmVars>>

TransportPart ==
  /\ part = "transports" /\ FsNext
  /\ UNCHANGED <<part, maintVars, arcVars, pgVars, ftVars, rtVars, cmVars>>

PagingPart ==
  /\ part = "paging" /\ PgNext
  /\ UNCHANGED <<part, maintVars, arcVars, fsVars, ftVars, rtVars, cmVars>>

TreePart ==
  /\ part = "tree" /\ FtNext
  /\ UNCHANGED <<part, maintVars, arcVars, fsVars, pgVars, rtVars, cmVars>>

RangePart ==
  /\ part = "ranges" /\ RtNext
  /\ UNCHANGED <<part, maintVars, arcVars, fsVars, pgVars, ftVars, cmVars>>

MarkingPart ==
  /\ part = "markings" /\ CmNext
  /\ UNCHANGED <<part, maintVars, arcVars, fsVars, pgVars, ftVars, rtVars>>

\* All but the maintenance may come to their end.
AtRest == part # "maintenance" /\ UNCHANGED storageVars

StorageNext ==
  \/ MaintenancePart \/ ArchivePart \/ TransportPart \/ PagingPart
  \/ TreePart \/ RangePart \/ MarkingPart \/ AtRest

StorageSpec == StorageInit /\ [][StorageNext]_storageVars /\ MaintenanceFairness

StorageTypeOK ==
  CASE part = "maintenance" -> TypeOK
    [] part = "archive"     -> ArcTypeOK
    [] part = "transports"  -> FsTypeOK
    [] part = "paging"      -> PgTypeOK
    [] part = "tree"        -> FtTypeOK
    [] part = "ranges"      -> RtTypeOK
    [] part = "markings"    -> CmTypeOK

----------------------------------------------------------------------------
\* Documents of an index, some with the same value of the sort field.
PageKeys == [d \in 1 .. 5 |-> IF d \in {2, 4, 5} THEN 1 ELSE 0]
=============================================================================
