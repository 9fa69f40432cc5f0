---------------------------- MODULE ArchiveMove ----------------------------
(***************************************************************************)
(* Moving documents of a collection from its hot index to its archive:     *)
(* ESCollection.archive, archive_by_query, and the lookups and deletions   *)
(* that go through both indices (datastore/collection.py).  The two are    *)
(* separate indices of Elasticsearch: nothing spans them.                  *)
(*                                                                         *)
(* What is saved is a version, numbered by its save; 0 is no document.     *)
(* Lookups by id are real time; searches, also those inside reindex and    *)
(* delete_by_query, see the hot index as it was last refreshed, and a      *)
(* delete_by_query leaves alone, as a conflict, a document that has        *)
(* changed since.                                                          *)
(***************************************************************************)
EXTENDS Integers, FiniteSets

CONSTANTS
  ArcDocs,          \* the keys
  ArcAsked,         \* the one that is looked up; they are all alike
  ArcMatching,      \* the versions that the query of archive_by_query matches
  MaxArcSaves,      \* bound: the saves
  MaxArcJobs        \* bound: the archivings

ASSUME ArcAssumption ==
  /\ IsFiniteSet(ArcDocs) /\ ArcAsked \in ArcDocs /\ ArcMatching \subseteq Nat \ {0}
  /\ MaxArcSaves \in Nat /\ MaxArcJobs \in Nat

VARIABLES
  arcHot, arcArchive,   \* the version each index holds of a key
  arcSeen,              \* the hot index as searches see it
  arcSaves,             \* the saves so far
  arcLatest,            \* the version last saved, 0 once it was deleted
  arcErasing,           \* the keys deleted from the hot index, not yet from the archive
  arcJob,               \* the archiving under way, with the versions it has read
  arcJobs,              \* the archivings so far
  arcGap,               \* the keys written between the copy and the deletion of an
                        \* archiving, left out of a copy that goes on to the deletion, or
                        \* saved while their deletion was half done
  arcRead               \* a lookup under way

arcVars == <<arcHot, arcArchive, arcSeen, arcSaves, arcLatest, arcErasing, arcJob, arcJobs,
             arcGap, arcRead>>

Versions == 0 .. MaxArcSaves
ArcSteps == {"none", "exists", "get", "save", "delete", "copying", "deleting"}

ArcTypeOK ==
  /\ {arcHot, arcArchive, arcSeen, arcLatest, arcJob.copy} \subseteq [ArcDocs -> Versions]
  /\ arcSaves \in Versions
  /\ arcErasing \subseteq ArcDocs
  /\ arcJob.step \in ArcSteps
  /\ arcJob.docs \subseteq ArcDocs
  /\ arcJob.erase \in BOOLEAN
  /\ {arcJob.max, arcJob.copied} \subseteq 0 .. Cardinality(ArcDocs)
  /\ arcGap \subseteq ArcDocs
  /\ arcRead.step \in {"none", "first", "second", "missing"}

NoCopy == [d \in ArcDocs |-> 0]
NoJob == [step |-> "none", docs |-> {}, copy |-> NoCopy, erase |-> FALSE, lenient |-> FALSE,
          max |-> 0, copied |-> 0]
NoRead == [step |-> "none", excused |-> FALSE]

ArcInit ==
  /\ arcHot = NoCopy
  /\ arcArchive = arcHot
  /\ arcSeen = arcHot
  /\ arcSaves = 0
  /\ arcLatest = arcHot
  /\ arcErasing = {}
  /\ arcJob = NoJob
  /\ arcJobs = 0
  /\ arcGap = {}
  /\ arcRead = NoRead

----------------------------------------------------------------------------
\* The users of the collection.

\* What is written to d now comes after it was read to be archived, and before
\* it is deleted.
Overtakes(d) ==
  /\ arcJob.erase
  /\ \/ arcJob.step \in {"copying", "deleting"}
     \/ arcJob.step \in {"save", "delete"} /\ d \in arcJob.docs

\* save, or an update, to the hot index.
SaveHot(d) ==
  /\ arcSaves < MaxArcSaves
  /\ arcSaves' = arcSaves + 1
  /\ arcHot' = [arcHot EXCEPT ![d] = arcSaves']
  /\ arcLatest' = [arcLatest EXCEPT ![d] = arcSaves']
  /\ arcGap' = IF Overtakes(d) \/ d \in arcErasing THEN arcGap \cup {d} ELSE arcGap
  /\ UNCHANGED <<arcArchive, arcSeen, arcErasing, arcJob, arcJobs, arcRead>>

\* delete goes through the indices in turn.
EraseHot(d) ==
  /\ arcLatest[d] # 0
  /\ arcHot' = [arcHot EXCEPT ![d] = 0]
  /\ arcLatest' = [arcLatest EXCEPT ![d] = 0]
  /\ arcErasing' = arcErasing \cup {d}
  /\ arcRead' = [arcRead EXCEPT !.excused = @ \/ (arcRead # NoRead /\ d = ArcAsked)]
  /\ UNCHANGED <<arcArchive, arcSeen, arcSaves, arcJob, arcJobs, arcGap>>

EraseArchive(d) ==
  /\ d \in arcErasing
  /\ arcArchive' = [arcArchive EXCEPT ![d] = 0]
  /\ arcErasing' = arcErasing \ {d}
  /\ UNCHANGED <<arcHot, arcSeen, arcSaves, arcLatest, arcJob, arcJobs, arcGap, arcRead>>

\* _get, exists and multiget ask one index after the other, here for a document
\* that is there; excused is the lookup beside which it is deleted.
StartRead ==
  /\ arcRead = NoRead
  /\ arcLatest[ArcAsked] # 0
  /\ arcRead' = [step |-> "first", excused |-> FALSE]
  /\ UNCHANGED <<arcHot, arcArchive, arcSeen, arcSaves, arcLatest, arcErasing, arcJob, arcJobs,
                 arcGap>>

\* (Fault: the archive is asked first.)
ArchiveFirst(step) == IF step = "first" THEN arcArchive ELSE arcHot

IndexOf(step) == IF step = "first" THEN arcHot ELSE arcArchive

ReadIndex ==
  /\ arcRead.step \in {"first", "second"}
  /\ arcRead' = IF IndexOf(arcRead.step)[ArcAsked] # 0 THEN NoRead
                ELSE [arcRead EXCEPT !.step = IF @ = "first" THEN "second" ELSE "missing"]
  /\ UNCHANGED <<arcHot, arcArchive, arcSeen, arcSaves, arcLatest, arcErasing, arcJob, arcJobs,
                 arcGap>>

\* The one who asked gives up.
EndRead ==
  /\ arcRead.step = "missing"
  /\ arcRead' = NoRead
  /\ UNCHANGED <<arcHot, arcArchive, arcSeen, arcSaves, arcLatest, arcErasing, arcJob, arcJobs,
                 arcGap>>

----------------------------------------------------------------------------
\* archive(key, delete_after, allow_missing)

StartJob(job) ==
  /\ arcJob = NoJob
  /\ arcJobs < MaxArcJobs
  /\ arcJobs' = arcJobs + 1
  /\ arcJob' = job

StartArchive(d, deleteAfter, allowMissing) ==
  /\ StartJob([step |-> "exists", docs |-> {d}, copy |-> NoCopy, erase |-> deleteAfter,
               lenient |-> allowMissing, max |-> 0, copied |-> 0])
  /\ UNCHANGED <<arcHot, arcArchive, arcSeen, arcSaves, arcLatest, arcErasing, arcGap,
                 arcRead>>

\* The one key of the job.
Key == CHOOSE d \in arcJob.docs : TRUE
GoOn(step) == arcJob' = [arcJob EXCEPT !.step = step]

ArchiveExists ==
  /\ arcJob.step = "exists"
  /\ GoOn(IF arcArchive[Key] # 0 THEN "delete" ELSE "get")
  /\ UNCHANGED <<arcHot, arcArchive, arcSeen, arcSaves, arcLatest, arcErasing, arcJobs,
                 arcGap, arcRead>>

\* Without a document it raises, or goes on if it may be missing.
ArchiveGet ==
  /\ arcJob.step = "get"
  /\ IF arcHot[Key] # 0
       THEN arcJob' = [arcJob EXCEPT !.step = "save", !.copy[Key] = arcHot[Key]]
     ELSE IF arcJob.lenient THEN GoOn("delete") ELSE arcJob' = NoJob
  /\ UNCHANGED <<arcHot, arcArchive, arcSeen, arcSaves, arcLatest, arcErasing, arcJobs, arcGap,
                 arcRead>>

ArchiveSave ==
  /\ arcJob.step = "save"
  /\ arcArchive' = [arcArchive EXCEPT ![Key] = arcJob.copy[Key]]
  /\ GoOn("delete")
  /\ UNCHANGED <<arcHot, arcSeen, arcSaves, arcLatest, arcErasing, arcJobs, arcGap,
                 arcRead>>

ArchiveDelete ==
  /\ arcJob.step = "delete"
  /\ arcHot' = IF arcJob.erase THEN [arcHot EXCEPT ![Key] = 0] ELSE arcHot
  /\ arcJob' = NoJob
  /\ UNCHANGED <<arcArchive, arcSeen, arcSaves, arcLatest, arcErasing, arcJobs, arcGap,
                 arcRead>>

----------------------------------------------------------------------------
\* archive_by_query(query, max_docs, delete_after)

Matched == {d \in ArcDocs : arcSeen[d] \in ArcMatching}

\* The reindex task reads a snapshot of the search.  max_docs only sets the
\* size of its batches: it copies everything that matches.
StartArchiveByQuery(max, deleteAfter) ==
  /\ StartJob([step |-> "copying", docs |-> Matched, erase |-> deleteAfter,
               copy |-> [d \in ArcDocs |-> IF d \in Matched THEN arcSeen[d] ELSE 0],
               lenient |-> FALSE, max |-> max, copied |-> 0])
  /\ arcGap' = IF deleteAfter THEN arcGap \cup {d \in ArcDocs : arcSeen[d] # arcHot[d]} ELSE arcGap
  /\ UNCHANGED <<arcHot, arcArchive, arcSeen, arcSaves, arcLatest, arcErasing, arcRead>>

CopyOne(d) ==
  /\ arcJob.step = "copying"
  /\ d \in arcJob.docs
  /\ arcArchive' = [arcArchive EXCEPT ![d] = arcJob.copy[d]]
  /\ arcJob' = [arcJob EXCEPT !.docs = @ \ {d}, !.copied = @ + 1,
                              !.step = IF arcJob.docs # {d} THEN "copying" ELSE "deleting"]
  /\ UNCHANGED <<arcHot, arcSeen, arcSaves, arcLatest, arcErasing, arcJobs, arcGap, arcRead>>

\* Nothing matched, or the task gives up and reports fewer documents than
\* matched: the deletion is not tried, unless it reports max_docs.
CopyFails ==
  LET goesOn == arcJob.copied = arcJob.max
  IN /\ arcJob.step = "copying"
     /\ IF goesOn THEN GoOn("deleting") ELSE arcJob' = NoJob
     /\ arcGap' = IF goesOn /\ arcJob.erase THEN arcGap \cup arcJob.docs ELSE arcGap
     /\ UNCHANGED <<arcHot, arcArchive, arcSeen, arcSaves, arcLatest, arcErasing, arcJobs, arcRead>>

\* _delete_async runs the query again; what conflicts is tried again by a
\* request with the same max_docs.
DeleteMatched(S) ==
  LET conflicts == {d \in S : arcHot[d] # arcSeen[d]}
  IN /\ arcJob.step = "deleting"
     /\ arcJob.erase
     /\ S \subseteq Matched
     /\ Cardinality(S) <= arcJob.max
     /\ S = Matched \/ Cardinality(S) = arcJob.max
     /\ arcHot' = [d \in ArcDocs |-> IF d \in S \ conflicts THEN 0 ELSE arcHot[d]]
     /\ arcJob' = IF conflicts = {} THEN NoJob ELSE arcJob
     /\ UNCHANGED <<arcArchive, arcSeen, arcSaves, arcLatest, arcErasing, arcJobs,
                    arcGap, arcRead>>

KeepMatched ==
  /\ arcJob.step = "deleting"
  /\ ~ arcJob.erase
  /\ arcJob' = NoJob
  /\ UNCHANGED <<arcHot, arcArchive, arcSeen, arcSaves, arcLatest, arcErasing, arcJobs,
                 arcGap, arcRead>>

\* Elasticsearch makes what was written visible to searches.
Refresh ==
  /\ arcSeen # arcHot
  /\ arcSeen' = arcHot
  /\ UNCHANGED <<arcHot, arcArchive, arcSaves, arcLatest, arcErasing, arcJob, arcJobs,
                 arcGap, arcRead>>

ArcNext ==
  \/ \E d \in ArcDocs :
       \/ SaveHot(d) \/ EraseHot(d) \/ EraseArchive(d) \/ CopyOne(d)
       \/ \E deleteAfter, allowMissing \in BOOLEAN : StartArchive(d, deleteAfter, allowMissing)
  \/ StartRead \/ ReadIndex \/ EndRead
  \/ ArchiveExists \/ ArchiveGet \/ ArchiveSave \/ ArchiveDelete
  \/ \E max \in 1 .. Cardinality(ArcDocs), deleteAfter \in BOOLEAN :
       StartArchiveByQuery(max, deleteAfter)
  \/ CopyFails
  \/ \E S \in SUBSET ArcDocs : DeleteMatched(S)
  \/ KeepMatched
  \/ Refresh

ArcSpec == ArcInit /\ [][ArcNext]_arcVars

----------------------------------------------------------------------------
\* Properties.

\* A document that was saved and not deleted is in the hot index or in the
\* archive, whatever archiving does or leaves half done, unless it was written
\* (or not yet visible to searches) between the copy and the deletion of an
\* archiving that deletes, or while a deletion of it went on.
ArchiveKeeps ==
  \A d \in ArcDocs :
    arcLatest[d] # 0 /\ d \notin arcGap => arcHot[d] # 0 \/ arcArchive[d] # 0

\* A lookup that goes through the indices while documents move between them
\* misses none that exists throughout: a copy is in the archive before the
\* original goes, and the hot index is asked first.
ReadersFind ==
  arcRead.step = "missing" => arcRead.excused \/ ArcAsked \in arcGap

----------------------------------------------------------------------------
\* What the code does not keep; see the README.

\* After an archiving the archive holds what the hot index held: the latest
\* version is in one of the two.
ArchiveMoves ==
  \A d \in ArcDocs \ arcGap :
    arcLatest[d] # 0 => arcLatest[d] \in {arcHot[d], arcArchive[d]}
=============================================================================
