--------------------------- MODULE StorageProofs ---------------------------
(***************************************************************************)
(* What the machines around the datastore and the filestore keep, for any  *)
(* number of documents, transports, clients and errors: archiving loses no *)
(* document and hides none, what was put stays, reading page by page finds *)
(* each document once, and the arithmetic of classifications agrees with   *)
(* who may see what.                                                       *)
(***************************************************************************)
EXTENDS MCStorage, MaintenanceProofs, RangeProofs, FiniteSetTheorems, TLAPS

----------------------------------------------------------------------------
\* Moving to the archive.

ArcJobRecords ==
  [step : ArcSteps, docs : SUBSET ArcDocs, copy : [ArcDocs -> Nat], erase : BOOLEAN,
   lenient : BOOLEAN, max : Int, copied : Int]

ArcShape ==
  /\ arcHot \in [ArcDocs -> Nat] /\ arcArchive \in [ArcDocs -> Nat]
  /\ arcSeen \in [ArcDocs -> Nat] /\ arcLatest \in [ArcDocs -> Nat]
  /\ arcSaves \in Nat
  /\ arcErasing \subseteq ArcDocs
  /\ arcJob \in ArcJobRecords
  /\ arcRead \in [step : {"none", "first", "second", "missing"}, excused : BOOLEAN]

\* A job for one document names it; what a job has read to be written is a
\* document.
OneKey ==
  arcJob.step \in {"exists", "get", "save", "delete"} => \E d \in ArcDocs : arcJob.docs = {d}

CopiesThere ==
  arcJob.step \in {"save", "copying"} => \A d \in arcJob.docs : arcJob.copy[d] # 0

ErasedGone == \A d \in arcErasing \ arcGap : arcHot[d] = 0 /\ arcLatest[d] = 0

\* The original may go.
Safe(d) == arcLatest[d] = 0 \/ d \in arcGap \/ arcArchive[d] # 0

\* Before an archiving deletes it, what it would delete is safe, or will be when
\* it has been copied.
KeyDeleteSafe ==
  arcJob.erase /\ arcJob.step = "delete" => \A d \in arcJob.docs : Safe(d)

QueryDeleteSafe ==
  arcJob.erase /\ arcJob.step \in {"copying", "deleting"} =>
    \A d \in ArcDocs : arcHot[d] \in ArcMatching =>
      Safe(d) \/ (arcJob.step = "copying" /\ d \in arcJob.docs)

\* A lookup that found nothing in the hot index will find it in the archive.
ReadSafe ==
  /\ arcRead.step # "none" /\ ~ arcRead.excused => arcLatest[ArcAsked] # 0
  /\ arcRead.step = "second" =>
       arcRead.excused \/ ArcAsked \in arcGap \/ arcArchive[ArcAsked] # 0

ArcInv ==
  /\ ArcShape /\ OneKey /\ CopiesThere /\ ErasedGone
  /\ KeyDeleteSafe /\ QueryDeleteSafe /\ ReadSafe
  /\ ArchiveKeeps /\ ReadersFind

LEMMA ArcInvInit == ArcInit => ArcInv
<1> SUFFICES ASSUME ArcInit PROVE ArcInv
  OBVIOUS
<1>1. ArcShape
  <2>1. NoJob \in ArcJobRecords
    BY DEF NoJob, NoCopy, ArcJobRecords, ArcSteps
  <2> QED
    BY <2>1 DEF ArcInit, ArcShape, NoCopy, NoRead
<1>2. arcJob.step = "none" /\ arcRead.step = "none"
  BY DEF ArcInit, NoJob, NoRead
<1>3. arcErasing = {} /\ \A d \in ArcDocs : arcLatest[d] = 0
  BY DEF ArcInit, NoCopy
<1> QED
  BY <1>1, <1>2, <1>3
     DEF ArcInv, OneKey, CopiesThere, ErasedGone, KeyDeleteSafe, QueryDeleteSafe, ReadSafe,
         ArchiveKeeps, ReadersFind

\* What is written anew while an archiving that deletes is under way is excused.
LEMMA ArcInvSaveHot ==
  ASSUME ArcInv, NEW d \in ArcDocs, SaveHot(d)
  PROVE  ArcInv'
<1> USE DEF ArcInv
<1>1. /\ arcSaves' \in Nat \ {0}
      /\ arcHot' = [arcHot EXCEPT ![d] = arcSaves']
      /\ arcLatest' = [arcLatest EXCEPT ![d] = arcSaves']
      /\ UNCHANGED <<arcArchive, arcSeen, arcErasing, arcJob, arcRead>>
  BY DEF SaveHot, ArcShape
<1>2. /\ arcHot' \in [ArcDocs -> Nat] /\ arcLatest' \in [ArcDocs -> Nat]
      /\ arcHot'[d] # 0 /\ arcLatest'[d] # 0
      /\ \A e \in ArcDocs : e # d => arcHot'[e] = arcHot[e] /\ arcLatest'[e] = arcLatest[e]
  BY <1>1 DEF ArcShape
<1>3. arcGap \subseteq arcGap' /\ (Overtakes(d) \/ d \in arcErasing => d \in arcGap')
  BY DEF SaveHot
<1>4. ArcShape'
  BY <1>1, <1>2 DEF ArcShape, ArcJobRecords
<1>5. OneKey' /\ CopiesThere'
  BY <1>1 DEF OneKey, CopiesThere
<1>6. ErasedGone'
  BY <1>1, <1>2, <1>3 DEF ErasedGone, ArcShape
<1>7. KeyDeleteSafe'
  <2> SUFFICES ASSUME arcJob.erase, arcJob.step = "delete", NEW e \in arcJob.docs
               PROVE  Safe(e)'
    BY <1>1 DEF KeyDeleteSafe
  <2>1. CASE e = d
    BY <1>3, <2>1 DEF Overtakes, Safe
  <2>2. CASE e # d
    <3>1. e \in ArcDocs
      BY DEF ArcShape, ArcJobRecords
    <3> QED
      BY <1>1, <1>2, <1>3, <2>2, <3>1 DEF KeyDeleteSafe, Safe
  <2> QED
    BY <2>1, <2>2
<1>8. QueryDeleteSafe'
  <2> SUFFICES ASSUME arcJob.erase, arcJob.step \in {"copying", "deleting"},
                      NEW e \in ArcDocs, arcHot'[e] \in ArcMatching
               PROVE  Safe(e)' \/ (arcJob.step = "copying" /\ e \in arcJob.docs)
    BY <1>1 DEF QueryDeleteSafe
  <2>1. CASE e = d
    BY <1>3, <2>1 DEF Overtakes, Safe
  <2>2. CASE e # d
    BY <1>1, <1>2, <1>3, <2>2 DEF QueryDeleteSafe, Safe
  <2> QED
    BY <2>1, <2>2
<1>9. ReadSafe' /\ ReadersFind'
  BY <1>1, <1>2, <1>3, ArcAssumption DEF ReadSafe, ReadersFind
<1>10. ArchiveKeeps'
  BY <1>1, <1>2, <1>3 DEF ArchiveKeeps
<1> QED
  BY <1>4, <1>5, <1>6, <1>7, <1>8, <1>9, <1>10

LEMMA ArcInvErase ==
  ASSUME ArcInv, NEW d \in ArcDocs, EraseHot(d) \/ EraseArchive(d)
  PROVE  ArcInv'
<1> USE DEF ArcInv
<1>1. UNCHANGED <<arcSeen, arcSaves, arcJob, arcGap>>
  BY DEF EraseHot, EraseArchive
<1>2. OneKey' /\ CopiesThere'
  BY <1>1 DEF OneKey, CopiesThere
<1>3. CASE EraseHot(d)
  <2>1. /\ arcHot' = [arcHot EXCEPT ![d] = 0] /\ arcLatest' = [arcLatest EXCEPT ![d] = 0]
        /\ arcErasing' = arcErasing \cup {d} /\ UNCHANGED arcArchive
    BY <1>3 DEF EraseHot
  <2>2. /\ arcHot' \in [ArcDocs -> Nat] /\ arcLatest' \in [ArcDocs -> Nat]
        /\ arcHot'[d] = 0 /\ arcLatest'[d] = 0
        /\ \A e \in ArcDocs : e # d => arcHot'[e] = arcHot[e] /\ arcLatest'[e] = arcLatest[e]
    BY <2>1 DEF ArcShape
  <2>3. PICK b \in BOOLEAN :
          /\ b = (arcRead.excused \/ (arcRead # NoRead /\ d = ArcAsked))
          /\ arcRead' = [arcRead EXCEPT !.excused = b]
    BY <1>3, Zenon DEF EraseHot
  <2>4. /\ arcRead' \in [step : {"none", "first", "second", "missing"}, excused : BOOLEAN]
        /\ arcRead'.step = arcRead.step /\ arcRead'.excused = b
    BY <2>3 DEF ArcShape
  <2>5. arcRead.excused => arcRead'.excused
    BY <2>3, <2>4, Zenon
  <2>6. d = ArcAsked /\ arcRead.step # "none" => arcRead'.excused
    <3>1. arcRead.step # "none" => arcRead # NoRead
      BY DEF NoRead
    <3> QED
      BY <2>3, <2>4, <3>1, Zenon
  <2>7. ArcShape'
    BY <1>1, <2>1, <2>2, <2>4 DEF ArcShape, ArcJobRecords
  <2>8. ErasedGone'
    BY <1>1, <2>1, <2>2 DEF ErasedGone, ArcShape
  <2>9. \A e \in ArcDocs : Safe(e) => Safe(e)'
    BY <1>1, <2>1, <2>2 DEF Safe
  <2>10. KeyDeleteSafe'
    <3>1. arcJob.docs \subseteq ArcDocs
      BY DEF ArcShape, ArcJobRecords
    <3> QED
      BY <1>1, <2>9, <3>1 DEF KeyDeleteSafe
  <2>11. QueryDeleteSafe'
    BY <1>1, <2>2, <2>9 DEF QueryDeleteSafe, Safe
  <2>12. ReadSafe' /\ ReadersFind'
    BY <1>1, <2>1, <2>2, <2>4, <2>5, <2>6, ArcAssumption DEF ReadSafe, ReadersFind
  <2>13. ArchiveKeeps'
    BY <1>1, <2>1, <2>2 DEF ArchiveKeeps
  <2> QED
    BY <1>2, <2>7, <2>8, <2>10, <2>11, <2>12, <2>13
<1>4. CASE EraseArchive(d)
  <2>1. /\ d \in arcErasing /\ arcArchive' = [arcArchive EXCEPT ![d] = 0]
        /\ arcErasing' = arcErasing \ {d} /\ UNCHANGED <<arcHot, arcLatest, arcRead>>
    BY <1>4 DEF EraseArchive
  <2>2. /\ arcArchive' \in [ArcDocs -> Nat]
        /\ \A e \in ArcDocs : e # d => arcArchive'[e] = arcArchive[e]
    BY <2>1 DEF ArcShape
  <2>3. arcLatest[d] = 0 \/ d \in arcGap
    BY <2>1 DEF ErasedGone
  <2>4. \A e \in ArcDocs : Safe(e) => Safe(e)'
    BY <1>1, <2>1, <2>2, <2>3 DEF Safe
  <2>5. ArcShape'
    BY <1>1, <2>1, <2>2 DEF ArcShape, ArcJobRecords
  <2>6. ErasedGone'
    BY <1>1, <2>1 DEF ErasedGone
  <2>7. KeyDeleteSafe'
    <3>1. arcJob.docs \subseteq ArcDocs
      BY DEF ArcShape, ArcJobRecords
    <3> QED
      BY <1>1, <2>4, <3>1 DEF KeyDeleteSafe
  <2>8. QueryDeleteSafe'
    BY <1>1, <2>1, <2>4 DEF QueryDeleteSafe
  <2>9. ReadSafe' /\ ReadersFind'
    BY <1>1, <2>1, <2>2, <2>3, ArcAssumption DEF ReadSafe, ReadersFind
  <2>10. ArchiveKeeps'
    BY <1>1, <2>1, <2>2, <2>3 DEF ArchiveKeeps
  <2> QED
    BY <1>2, <2>5, <2>6, <2>7, <2>8, <2>9, <2>10
<1> QED
  BY <1>3, <1>4

\* A lookup goes on: what the hot index has lost is in the archive.
LEMMA ArcInvRead ==
  ASSUME ArcInv, StartRead \/ ReadIndex \/ EndRead
  PROVE  ArcInv'
<1> USE DEF ArcInv
<1>1. UNCHANGED <<arcHot, arcArchive, arcSeen, arcSaves, arcLatest, arcErasing, arcJob, arcJobs,
                  arcGap>>
  BY DEF StartRead, ReadIndex, EndRead
<1>2. /\ OneKey' /\ CopiesThere' /\ ErasedGone' /\ KeyDeleteSafe' /\ QueryDeleteSafe'
      /\ ArchiveKeeps'
  BY <1>1 DEF OneKey, CopiesThere, ErasedGone, KeyDeleteSafe, QueryDeleteSafe, Safe, ArchiveKeeps
<1>3. NoRead.step = "none" /\ NoRead \in [step : {"none", "first", "second", "missing"},
                                          excused : BOOLEAN]
  BY DEF NoRead
<1>4. CASE StartRead
  <2>1. /\ arcRead' \in [step : {"none", "first", "second", "missing"}, excused : BOOLEAN]
        /\ arcRead'.step = "first" /\ arcLatest[ArcAsked] # 0
    BY <1>4 DEF StartRead
  <2> QED
    BY <1>1, <1>2, <2>1 DEF ArcShape, ReadSafe, ReadersFind
<1>5. CASE EndRead
  BY <1>1, <1>2, <1>3, <1>5 DEF EndRead, ArcShape, ReadSafe, ReadersFind
<1>6. CASE ReadIndex /\ IndexOf(arcRead.step)[ArcAsked] # 0
  BY <1>1, <1>2, <1>3, <1>6 DEF ReadIndex, ArcShape, ReadSafe, ReadersFind
<1>7. CASE ReadIndex /\ IndexOf(arcRead.step)[ArcAsked] = 0
  <2>1. /\ arcRead' \in [step : {"none", "first", "second", "missing"}, excused : BOOLEAN]
        /\ arcRead.step = "first" => arcRead'.step = "second"
        /\ arcRead.step = "second" => arcRead'.step = "missing"
        /\ arcRead.step \in {"first", "second"}
        /\ arcRead'.excused = arcRead.excused
    BY <1>7 DEF ReadIndex, ArcShape
  <2>2. ArcShape'
    BY <1>1, <2>1 DEF ArcShape
  <2>3. CASE arcRead.step = "first"
    <3>1. arcHot[ArcAsked] = 0
      BY <1>7, <2>3 DEF IndexOf
    <3>2. arcRead.excused \/ ArcAsked \in arcGap \/ arcArchive[ArcAsked] # 0
      BY <2>3, <3>1, ArcAssumption DEF ReadSafe, ArchiveKeeps
    <3> QED
      BY <1>1, <1>2, <2>1, <2>2, <2>3, <3>2 DEF ReadSafe, ReadersFind
  <2>4. CASE arcRead.step = "second"
    <3>1. arcArchive[ArcAsked] = 0
      BY <1>7, <2>4 DEF IndexOf
    <3> QED
      BY <1>1, <1>2, <2>1, <2>2, <2>4, <3>1 DEF ReadSafe, ReadersFind
  <2> QED
    BY <2>1, <2>3, <2>4
<1> QED
  BY <1>4, <1>5, <1>6, <1>7

LEMMA NoJobRecord == NoJob \in ArcJobRecords /\ NoJob.step = "none"
BY DEF NoJob, NoCopy, ArcJobRecords, ArcSteps

LEMMA KeyInDocs ==
  ASSUME ArcShape, OneKey, arcJob.step \in {"exists", "get", "save", "delete"}
  PROVE  Key \in ArcDocs /\ arcJob.docs = {Key}
<1>1. PICK d \in ArcDocs : arcJob.docs = {d}
  BY DEF OneKey
<1> QED
  BY <1>1 DEF Key

\* A step of a job that writes to no index.
LEMMA ArcInvJob ==
  ASSUME ArcInv, arcJob' \in ArcJobRecords, OneKey', CopiesThere', KeyDeleteSafe', QueryDeleteSafe',
         arcGap \subseteq arcGap',
         UNCHANGED <<arcHot, arcArchive, arcSeen, arcSaves, arcLatest, arcErasing, arcRead>>
  PROVE  ArcInv'
BY DEF ArcInv, ArcShape, ErasedGone, ReadSafe, ArchiveKeeps, ReadersFind, ArcJobRecords

LEMMA ArcInvStartArchive ==
  ASSUME ArcInv, NEW d \in ArcDocs, NEW deleteAfter \in BOOLEAN, NEW allowMissing \in BOOLEAN,
         StartArchive(d, deleteAfter, allowMissing)
  PROVE  ArcInv'
<1>1. /\ arcJob'.step = "exists" /\ arcJob'.docs = {d}
      /\ UNCHANGED <<arcHot, arcArchive, arcSeen, arcSaves, arcLatest, arcErasing, arcGap, arcRead>>
  BY DEF StartArchive, StartJob
<1>2. arcJob' \in ArcJobRecords
  BY DEF StartArchive, StartJob, ArcJobRecords, ArcSteps, NoCopy
<1> QED
  BY <1>1, <1>2, ArcInvJob DEF OneKey, CopiesThere, KeyDeleteSafe, QueryDeleteSafe

LEMMA ArcInvExists ==
  ASSUME ArcInv, ArchiveExists
  PROVE  ArcInv'
<1>1. Key \in ArcDocs /\ arcJob.docs = {Key}
  BY KeyInDocs DEF ArcInv, ArchiveExists
<1>2. arcJob \in ArcJobRecords
  BY DEF ArcInv, ArcShape
<1>3. PICK s \in {"delete", "get"} : /\ arcJob' = [arcJob EXCEPT !.step = s]
                                     /\ s = "delete" => arcArchive[Key] # 0
  BY DEF ArchiveExists, GoOn
<1>4. /\ arcJob' \in ArcJobRecords /\ arcJob'.step = s /\ arcJob'.docs = arcJob.docs
      /\ arcJob'.erase = arcJob.erase
  BY <1>2, <1>3 DEF ArcJobRecords, ArcSteps
<1>5. UNCHANGED <<arcHot, arcArchive, arcSeen, arcSaves, arcLatest, arcErasing, arcGap, arcRead>>
  BY DEF ArchiveExists
<1>6. OneKey' /\ CopiesThere' /\ QueryDeleteSafe'
  BY <1>1, <1>4 DEF OneKey, CopiesThere, QueryDeleteSafe
<1>7. KeyDeleteSafe'
  BY <1>1, <1>3, <1>4, <1>5 DEF KeyDeleteSafe, Safe
<1> QED
  BY <1>4, <1>5, <1>6, <1>7, ArcInvJob

LEMMA ArcInvGet ==
  ASSUME ArcInv, ArchiveGet
  PROVE  ArcInv'
<1>1. Key \in ArcDocs /\ arcJob.docs = {Key}
  BY KeyInDocs DEF ArcInv, ArchiveGet
<1>2. arcJob \in ArcJobRecords /\ arcHot[Key] \in Nat
  BY <1>1 DEF ArcInv, ArcShape
<1>3. UNCHANGED <<arcHot, arcArchive, arcSeen, arcSaves, arcLatest, arcErasing, arcGap, arcRead>>
  BY DEF ArchiveGet
<1>4. CASE arcHot[Key] # 0
  <2>1. arcJob' = [arcJob EXCEPT !.step = "save", !.copy[Key] = arcHot[Key]]
    BY <1>4 DEF ArchiveGet
  <2>2. /\ arcJob' \in ArcJobRecords /\ arcJob'.step = "save" /\ arcJob'.docs = arcJob.docs
        /\ arcJob'.copy[Key] # 0
    BY <1>1, <1>2, <1>4, <2>1 DEF ArcJobRecords, ArcSteps
  <2> QED
    BY <1>1, <1>3, <2>2, ArcInvJob DEF OneKey, CopiesThere, KeyDeleteSafe, QueryDeleteSafe
<1>5. CASE arcHot[Key] = 0 /\ arcJob.lenient
  <2>1. arcJob' = [arcJob EXCEPT !.step = "delete"]
    BY <1>5 DEF ArchiveGet, GoOn
  <2>2. arcJob' \in ArcJobRecords /\ arcJob'.step = "delete" /\ arcJob'.docs = arcJob.docs
    BY <1>2, <2>1 DEF ArcJobRecords, ArcSteps
  <2>3. PICK k \in ArcDocs : arcJob.docs = {k} /\ arcHot[k] = 0
    BY <1>1, <1>5
  <2>4. Safe(k)'
    BY <1>3, <2>3 DEF Safe, ArcInv, ArchiveKeeps
  <2> QED
    BY <1>3, <2>2, <2>3, <2>4, ArcInvJob DEF OneKey, CopiesThere, KeyDeleteSafe, QueryDeleteSafe
<1>6. CASE arcHot[Key] = 0 /\ ~ arcJob.lenient
  <2>1. arcJob' = NoJob
    BY <1>6 DEF ArchiveGet
  <2> QED
    BY <1>3, <2>1, NoJobRecord, ArcInvJob
       DEF OneKey, CopiesThere, KeyDeleteSafe, QueryDeleteSafe
<1> QED
  BY <1>4, <1>5, <1>6

LEMMA ArcInvSave ==
  ASSUME ArcInv, ArchiveSave
  PROVE  ArcInv'
<1> USE DEF ArcInv
<1>1. Key \in ArcDocs /\ arcJob.docs = {Key} /\ arcJob.copy[Key] # 0
  BY KeyInDocs DEF ArchiveSave, CopiesThere
<1>2. arcJob \in ArcJobRecords /\ arcJob.copy[Key] \in Nat
  BY <1>1 DEF ArcShape, ArcJobRecords
<1>3. /\ arcArchive' = [arcArchive EXCEPT ![Key] = arcJob.copy[Key]]
      /\ arcJob' = [arcJob EXCEPT !.step = "delete"]
      /\ UNCHANGED <<arcHot, arcSeen, arcSaves, arcLatest, arcErasing, arcGap, arcRead>>
  BY DEF ArchiveSave, GoOn
<1> HIDE DEF Key
<1>4. arcJob' \in ArcJobRecords /\ arcJob'.step = "delete" /\ arcJob'.docs = arcJob.docs
  BY <1>2, <1>3 DEF ArcJobRecords, ArcSteps
<1>5. /\ arcArchive' \in [ArcDocs -> Nat] /\ arcArchive'[Key] # 0
      /\ \A e \in ArcDocs : arcArchive[e] # 0 => arcArchive'[e] # 0
  BY <1>1, <1>2, <1>3 DEF ArcShape
<1>6. ArcShape'
  BY <1>3, <1>4, <1>5 DEF ArcShape, ArcJobRecords
<1>7. OneKey' /\ CopiesThere' /\ QueryDeleteSafe' /\ KeyDeleteSafe'
  BY <1>1, <1>4, <1>5 DEF OneKey, CopiesThere, QueryDeleteSafe, KeyDeleteSafe, Safe
<1>8. ErasedGone' /\ ReadSafe' /\ ReadersFind' /\ ArchiveKeeps'
  BY <1>3, <1>5, ArcAssumption DEF ErasedGone, ReadSafe, ReadersFind, ArchiveKeeps
<1> QED
  BY <1>6, <1>7, <1>8

\* The deletion from the hot index of documents that are safe.
LEMMA ArcInvDeletes ==
  ASSUME ArcInv, NEW S \in SUBSET ArcDocs, \A d \in S : Safe(d),
         arcHot' = [d \in ArcDocs |-> IF d \in S THEN 0 ELSE arcHot[d]],
         arcJob' = NoJob \/ arcJob' = arcJob,
         UNCHANGED <<arcArchive, arcSeen, arcSaves, arcLatest, arcErasing, arcGap, arcRead>>
  PROVE  ArcInv'
<1> USE DEF ArcInv
<1>1. arcHot' \in [ArcDocs -> Nat] /\ \A d \in ArcDocs : arcHot'[d] # 0 => arcHot'[d] = arcHot[d]
  BY DEF ArcShape
<1>2. ArcShape'
  BY <1>1, NoJobRecord DEF ArcShape, ArcJobRecords
<1>3. ErasedGone'
  BY DEF ErasedGone, ArcShape
<1>4. \A d \in ArcDocs : arcHot[d] # 0 /\ arcHot'[d] = 0 => Safe(d)
  OBVIOUS
<1>5. ArchiveKeeps'
  BY <1>4 DEF ArchiveKeeps, Safe
<1>6. ReadSafe' /\ ReadersFind'
  BY DEF ReadSafe, ReadersFind
<1>7. CASE arcJob' = NoJob
  BY <1>2, <1>3, <1>5, <1>6, <1>7, NoJobRecord
     DEF OneKey, CopiesThere, KeyDeleteSafe, QueryDeleteSafe
<1>8. CASE arcJob' = arcJob
  <2>1. OneKey' /\ CopiesThere' /\ KeyDeleteSafe'
    BY <1>8 DEF OneKey, CopiesThere, KeyDeleteSafe, Safe
  <2>2. QueryDeleteSafe'
    BY <1>1, <1>8, ArcAssumption DEF QueryDeleteSafe, Safe
  <2> QED
    BY <1>2, <1>3, <1>5, <1>6, <2>1, <2>2
<1> QED
  BY <1>7, <1>8

LEMMA ArcInvDelete ==
  ASSUME ArcInv, ArchiveDelete
  PROVE  ArcInv'
<1>1. Key \in ArcDocs /\ arcJob.docs = {Key}
  BY KeyInDocs DEF ArcInv, ArchiveDelete
<1>2. /\ arcJob.step = "delete" /\ arcJob' = NoJob
      /\ arcHot' = IF arcJob.erase THEN [arcHot EXCEPT ![Key] = 0] ELSE arcHot
      /\ UNCHANGED <<arcArchive, arcSeen, arcSaves, arcLatest, arcErasing, arcGap, arcRead>>
  BY DEF ArchiveDelete
<1> HIDE DEF Key
<1>3. CASE arcJob.erase
  <2>1. Safe(Key)
    BY <1>1, <1>2, <1>3 DEF ArcInv, KeyDeleteSafe
  <2>2. arcHot' = [d \in ArcDocs |-> IF d \in {Key} THEN 0 ELSE arcHot[d]]
    BY <1>1, <1>2, <1>3 DEF ArcInv, ArcShape
  <2> QED
    BY <1>1, <1>2, <2>1, <2>2, ArcInvDeletes
<1>4. CASE ~ arcJob.erase
  <2>1. arcHot' = [d \in ArcDocs |-> IF d \in {} THEN 0 ELSE arcHot[d]]
    BY <1>2, <1>4 DEF ArcInv, ArcShape
  <2>2. {} \in SUBSET ArcDocs /\ \A d \in {} : Safe(d)
    OBVIOUS
  <2> QED
    BY <1>2, <2>1, <2>2, ArcInvDeletes
<1> QED
  BY <1>3, <1>4

\* What the query finds and has been written since it was last visible to
\* searches is excused; the rest is copied before it is deleted.
LEMMA ArcInvStartByQuery ==
  ASSUME ArcInv, NEW max \in Int, NEW deleteAfter \in BOOLEAN,
         StartArchiveByQuery(max, deleteAfter)
  PROVE  ArcInv'
<1> USE DEF ArcInv
<1>1. /\ arcJob'.step = "copying" /\ arcJob'.docs = Matched /\ arcJob'.erase = deleteAfter
      /\ arcJob'.copy = [d \in ArcDocs |-> IF d \in Matched THEN arcSeen[d] ELSE 0]
      /\ UNCHANGED <<arcHot, arcArchive, arcSeen, arcSaves, arcLatest, arcErasing, arcRead>>
  BY DEF StartArchiveByQuery, StartJob
<1>2. Matched \subseteq ArcDocs /\ \A d \in ArcDocs : d \in Matched <=> arcSeen[d] \in ArcMatching
  BY DEF Matched
<1>3. arcJob' \in ArcJobRecords
  <2>1. [d \in ArcDocs |-> IF d \in Matched THEN arcSeen[d] ELSE 0] \in [ArcDocs -> Nat]
    BY DEF ArcShape
  <2> QED
    BY <1>2, <2>1 DEF StartArchiveByQuery, StartJob, ArcJobRecords, ArcSteps
<1>4. /\ arcGap \subseteq arcGap'
      /\ deleteAfter => \A d \in ArcDocs : arcSeen[d] # arcHot[d] => d \in arcGap'
  BY DEF StartArchiveByQuery
<1>5. OneKey' /\ KeyDeleteSafe'
  BY <1>1 DEF OneKey, KeyDeleteSafe
<1>6. CopiesThere'
  BY <1>1, <1>2, ArcAssumption DEF CopiesThere
<1>7. QueryDeleteSafe'
  <2> SUFFICES ASSUME deleteAfter, NEW d \in ArcDocs, arcHot[d] \in ArcMatching
               PROVE  Safe(d)' \/ d \in Matched
    BY <1>1 DEF QueryDeleteSafe
  <2> QED
    BY <1>1, <1>2, <1>4 DEF Safe
<1> QED
  BY <1>1, <1>3, <1>4, <1>5, <1>6, <1>7, ArcInvJob

LEMMA ArcInvCopyOne ==
  ASSUME ArcInv, NEW d \in ArcDocs, CopyOne(d)
  PROVE  ArcInv'
<1> USE DEF ArcInv
<1>1. /\ arcJob \in ArcJobRecords /\ arcJob.step = "copying" /\ d \in arcJob.docs
      /\ arcJob.copy[d] \in Nat \ {0} /\ arcJob.docs \subseteq ArcDocs
  BY DEF CopyOne, ArcShape, ArcJobRecords, CopiesThere
<1> DEFINE s == IF arcJob.docs # {d} THEN "copying" ELSE "deleting"
           first == [arcJob EXCEPT !.docs = @ \ {d}]
           second == [first EXCEPT !.copied = @ + 1]
<1>2. /\ arcJob' = [second EXCEPT !.step = s]
      /\ s \in {"copying", "deleting"} /\ (s = "deleting" => arcJob.docs = {d})
  <2>1. arcJob' = [arcJob EXCEPT !.docs = @ \ {d}, !.copied = @ + 1, !.step = s]
    BY DEF CopyOne
  <2>2. arcJob' = [second EXCEPT !.step = s]
    BY <1>1, <2>1 DEF ArcJobRecords
  <2> QED
    BY <2>2
<1> HIDE DEF s
<1>3. /\ arcArchive' = [arcArchive EXCEPT ![d] = arcJob.copy[d]]
      /\ UNCHANGED <<arcHot, arcSeen, arcSaves, arcLatest, arcErasing, arcGap, arcRead>>
  BY DEF CopyOne
<1>4. /\ arcJob'.step = s /\ arcJob'.docs = arcJob.docs \ {d} /\ arcJob'.erase = arcJob.erase
      /\ arcJob'.copy = arcJob.copy /\ arcJob' \in ArcJobRecords
  <2>1. /\ first \in ArcJobRecords /\ first.docs = arcJob.docs \ {d}
        /\ first.erase = arcJob.erase /\ first.copy = arcJob.copy
    BY <1>1 DEF ArcJobRecords
  <2> HIDE DEF first
  <2>2. /\ second \in ArcJobRecords /\ second.docs = arcJob.docs \ {d}
        /\ second.erase = arcJob.erase /\ second.copy = arcJob.copy
    BY <2>1 DEF ArcJobRecords
  <2> HIDE DEF second
  <2> QED
    BY <1>2, <2>2 DEF ArcJobRecords, ArcSteps
<1>5. /\ arcArchive' \in [ArcDocs -> Nat] /\ arcArchive'[d] # 0
      /\ \A e \in ArcDocs : arcArchive[e] # 0 => arcArchive'[e] # 0
  BY <1>1, <1>3 DEF ArcShape
<1>6. ArcShape'
  BY <1>3, <1>4, <1>5 DEF ArcShape, ArcJobRecords
<1>7. OneKey' /\ KeyDeleteSafe' /\ CopiesThere'
  BY <1>1, <1>2, <1>4 DEF OneKey, KeyDeleteSafe, CopiesThere
<1>8. QueryDeleteSafe'
  <2> SUFFICES ASSUME arcJob.erase, NEW e \in ArcDocs, arcHot[e] \in ArcMatching
               PROVE  Safe(e)' \/ (s = "copying" /\ e \in arcJob.docs \ {d})
    BY <1>3, <1>4 DEF QueryDeleteSafe
  <2>1. CASE e = d
    BY <1>5, <2>1 DEF Safe
  <2>2. CASE e # d
    <3>1. Safe(e) \/ e \in arcJob.docs
      BY <1>1 DEF QueryDeleteSafe
    <3> QED
      BY <1>2, <1>3, <1>5, <2>2, <3>1 DEF Safe
  <2> QED
    BY <2>1, <2>2
<1>9. ErasedGone' /\ ReadSafe' /\ ReadersFind' /\ ArchiveKeeps'
  BY <1>3, <1>5, ArcAssumption DEF ErasedGone, ReadSafe, ReadersFind, ArchiveKeeps
<1> QED
  BY <1>6, <1>7, <1>8, <1>9

LEMMA ArcInvCopyFails ==
  ASSUME ArcInv, CopyFails
  PROVE  ArcInv'
<1> USE DEF ArcInv
<1>1. /\ arcJob \in ArcJobRecords /\ arcJob.step = "copying" /\ arcGap \subseteq arcGap'
      /\ UNCHANGED <<arcHot, arcArchive, arcSeen, arcSaves, arcLatest, arcErasing, arcRead>>
  BY DEF CopyFails, ArcShape
<1>2. CASE arcJob.copied = arcJob.max
  <2>1. /\ arcJob' = [arcJob EXCEPT !.step = "deleting"]
        /\ arcJob.erase => arcGap' = arcGap \cup arcJob.docs
    BY <1>2 DEF CopyFails, GoOn
  <2>2. arcJob' \in ArcJobRecords /\ arcJob'.step = "deleting" /\ arcJob'.erase = arcJob.erase
    BY <1>1, <2>1 DEF ArcJobRecords, ArcSteps
  <2>3. QueryDeleteSafe'
    BY <1>1, <2>1, <2>2 DEF QueryDeleteSafe, Safe
  <2> QED
    BY <1>1, <2>2, <2>3, ArcInvJob DEF OneKey, CopiesThere, KeyDeleteSafe
<1>3. CASE arcJob.copied # arcJob.max
  <2>1. arcJob' = NoJob
    BY <1>3 DEF CopyFails
  <2> QED
    BY <1>1, <2>1, NoJobRecord, ArcInvJob
       DEF OneKey, CopiesThere, KeyDeleteSafe, QueryDeleteSafe
<1> QED
  BY <1>2, <1>3

\* The deletion runs the query again, and leaves alone what has changed since it
\* was visible: what it deletes is in the archive, or excused.
LEMMA ArcInvDeleteMatched ==
  ASSUME ArcInv, NEW S \in SUBSET ArcDocs, DeleteMatched(S)
  PROVE  ArcInv'
<1> DEFINE conflicts == {d \in S : arcHot[d] # arcSeen[d]}
<1>1. /\ arcJob.step = "deleting" /\ arcJob.erase /\ S \subseteq Matched
      /\ arcHot' = [d \in ArcDocs |-> IF d \in S \ conflicts THEN 0 ELSE arcHot[d]]
      /\ arcJob' = NoJob \/ arcJob' = arcJob
      /\ UNCHANGED <<arcArchive, arcSeen, arcSaves, arcLatest, arcErasing, arcGap, arcRead>>
  BY DEF DeleteMatched
<1>2. \A d \in S \ conflicts : Safe(d)
  <2> SUFFICES ASSUME NEW d \in S \ conflicts PROVE Safe(d)
    OBVIOUS
  <2>1. d \in ArcDocs /\ arcHot[d] = arcSeen[d] /\ arcSeen[d] \in ArcMatching
    BY <1>1 DEF Matched
  <2> QED
    BY <1>1, <2>1 DEF ArcInv, QueryDeleteSafe
<1>3. S \ conflicts \in SUBSET ArcDocs
  OBVIOUS
<1> HIDE DEF conflicts
<1> QED
  BY <1>1, <1>2, <1>3, ArcInvDeletes

LEMMA ArcInvStep == ArcInv /\ [ArcNext]_arcVars => ArcInv'
<1> SUFFICES ASSUME ArcInv, [ArcNext]_arcVars PROVE ArcInv'
  OBVIOUS
<1>1. ASSUME NEW d \in ArcDocs, SaveHot(d) \/ EraseHot(d) \/ EraseArchive(d) \/ CopyOne(d)
      PROVE  ArcInv'
  BY <1>1, ArcInvSaveHot, ArcInvErase, ArcInvCopyOne
<1>2. ASSUME NEW d \in ArcDocs, NEW deleteAfter \in BOOLEAN, NEW allowMissing \in BOOLEAN,
             StartArchive(d, deleteAfter, allowMissing)
      PROVE  ArcInv'
  BY <1>2, ArcInvStartArchive
<1>3. CASE \/ StartRead \/ ReadIndex \/ EndRead
           \/ ArchiveExists \/ ArchiveGet \/ ArchiveSave \/ ArchiveDelete \/ CopyFails
  BY <1>3, ArcInvRead, ArcInvExists, ArcInvGet, ArcInvSave, ArcInvDelete, ArcInvCopyFails
<1>4. ASSUME NEW max \in 1 .. Cardinality(ArcDocs), NEW deleteAfter \in BOOLEAN,
             StartArchiveByQuery(max, deleteAfter)
      PROVE  ArcInv'
  BY <1>4, ArcInvStartByQuery
<1>5. ASSUME NEW S \in SUBSET ArcDocs, DeleteMatched(S) PROVE ArcInv'
  BY <1>5, ArcInvDeleteMatched
<1>6. CASE KeepMatched
  BY <1>6, NoJobRecord, ArcInvJob
     DEF KeepMatched, OneKey, CopiesThere, KeyDeleteSafe, QueryDeleteSafe
<1>7. CASE Refresh
  BY <1>7 DEF Refresh, ArcInv, ArcShape, ArcJobRecords, OneKey, CopiesThere, ErasedGone,
              KeyDeleteSafe, QueryDeleteSafe, Safe, ReadSafe, ArchiveKeeps, ReadersFind
<1>8. CASE UNCHANGED arcVars
  BY <1>8 DEF arcVars, ArcInv, ArcShape, ArcJobRecords, OneKey, CopiesThere, ErasedGone,
              KeyDeleteSafe, QueryDeleteSafe, Safe, ReadSafe, ArchiveKeeps, ReadersFind
<1> QED
  BY <1>1, <1>2, <1>3, <1>4, <1>5, <1>6, <1>7, <1>8 DEF ArcNext

\* A document that was saved and not deleted is in one of the indices, for any
\* number of documents, saves and archivings (collection.py: archive,
\* archive_by_query, delete).
THEOREM ArchiveAlwaysKeeps == ArcSpec => []ArchiveKeeps
<1>1. ArcInv => ArchiveKeeps
  BY DEF ArcInv
<1> QED
  BY <1>1, ArcInvInit, ArcInvStep, PTL DEF ArcSpec

\* A lookup through both indices misses no document that exists throughout
\* (collection.py: _get, exists, multiget).
THEOREM ReadersAlwaysFind == ArcSpec => []ReadersFind
<1>1. ArcInv => ReadersFind
  BY DEF ArcInv
<1> QED
  BY <1>1, ArcInvInit, ArcInvStep, PTL DEF ArcSpec

----------------------------------------------------------------------------
\* The transports of a filestore.

FsCallRecords ==
  [op : {"none", "put", "delete"}, at : Nat, step : {"none", "check", "write", "verify"},
   content : Nat, force : BOOLEAN, calm : BOOLEAN]

FsShape ==
  /\ fsFile \in [Transports -> Nat]
  /\ fsWhole \in [Transports -> BOOLEAN]
  /\ fsDone \in [FsClients -> Nat \cup {AnyContent}]
  /\ fsCall \in [FsClients -> FsCallRecords]
  /\ \A c \in FsClients : fsCall[c].op = "none" => fsCall[c] = Resting
  /\ \A c \in FsClients : fsCall[c].op = "put" =>
       /\ fsCall[c].at \in Transports /\ fsCall[c].content # 0
       /\ fsCall[c].step \in {"check", "write", "verify"}
  /\ \A c \in FsClients : fsCall[c].op = "delete" =>
       fsCall[c].at \in Transports /\ fsCall[c].step = "none"

Disturbs(call) == call.op = "delete" \/ (call.op = "put" /\ call.force)

CalmApart ==
  \A c, x \in FsClients : c # x /\ fsCall[c].calm => ~ Clash(fsCall[c], fsCall[x])

Past(call, t) == t < call.at \/ (t = call.at /\ call.step = "verify")

PutSoFar ==
  \A c \in FsClients : fsCall[c].op = "put" /\ fsCall[c].calm =>
    \A t \in Transports : Past(fsCall[c], t) =>
      /\ fsFile[t] # 0
      /\ fsCall[c].force => fsFile[t] = fsCall[c].content

DoneApart ==
  \A c, x \in FsClients : fsDone[c] # 0 =>
    /\ ~ Disturbs(fsCall[x])
    /\ fsDone[c] # AnyContent => fsCall[x].step # "write"

HalfKnown == \A t \in Transports : fsWhole[t] \/ t \in fsBroken

FsInv == FsShape /\ CalmApart /\ PutSoFar /\ DoneApart /\ HalfKnown /\ PutsStay

LEMMA FsInvInit == FsInit => FsInv
<1> SUFFICES ASSUME FsInit PROVE FsInv
  OBVIOUS
<1>1. Resting \in FsCallRecords
  BY DEF Resting, FsCallRecords
<1>2. \A c \in FsClients : fsCall[c] = Resting /\ fsDone[c] = 0
  BY DEF FsInit
<1>3. FsShape
  BY <1>1, FsAssumption DEF FsInit, FsShape, Resting, Transports
<1>4. CalmApart /\ PutSoFar /\ DoneApart /\ PutsStay
  BY <1>2 DEF CalmApart, PutSoFar, DoneApart, PutsStay, Clash, Resting
<1>5. HalfKnown
  BY DEF FsInit, HalfKnown
<1> QED
  BY <1>3, <1>4, <1>5 DEF FsInv

\* The same call, but for how calm it is.
SameCall(a, b) ==
  a.op = b.op /\ a.at = b.at /\ a.step = b.step /\ a.content = b.content /\ a.force = b.force

\* What the start of a call does to the calls.
LEMMA FsStartCalls ==
  ASSUME FsShape, NEW c \in FsClients, NEW call \in FsCallRecords, FsStart(c, call)
  PROVE  /\ fsCall[c] = Resting
         /\ fsCall' \in [FsClients -> FsCallRecords]
         /\ SameCall(fsCall'[c], call)
         /\ fsCall'[c].calm => \A x \in FsClients : ~ Clash(call, fsCall[x])
         /\ \A o \in FsClients \ {c} :
              /\ SameCall(fsCall'[o], fsCall[o])
              /\ fsCall'[o].calm => fsCall[o].calm /\ ~ Clash(call, fsCall[o])
              /\ fsCall[o] = Resting => fsCall'[o] = Resting
<1>1. \A x \in FsClients : fsCall[x] \in FsCallRecords
  BY DEF FsShape
<1>2. \A o \in FsClients \ {c} :
        fsCall'[o] = IF Clash(call, fsCall[o]) THEN [fsCall[o] EXCEPT !.calm = FALSE] ELSE fsCall[o]
  BY DEF FsStart
<1>3. PICK b \in BOOLEAN : /\ b = (\A x \in FsClients : ~ Clash(call, fsCall[x]))
                           /\ fsCall'[c] = [call EXCEPT !.calm = b]
  BY Zenon DEF FsStart
<1>4. fsCall'[c] \in FsCallRecords
  BY <1>3 DEF FsCallRecords
<1>5. \A o \in FsClients \ {c} : fsCall'[o] \in FsCallRecords
  <2> SUFFICES ASSUME NEW o \in FsClients \ {c} PROVE fsCall'[o] \in FsCallRecords
    OBVIOUS
  <2>1. CASE Clash(call, fsCall[o])
    BY <1>1, <1>2, <2>1 DEF FsCallRecords
  <2>2. CASE ~ Clash(call, fsCall[o])
    BY <1>1, <1>2, <2>2
  <2> QED
    BY <2>1, <2>2
<1>6. fsCall' \in [FsClients -> FsCallRecords]
  BY <1>4, <1>5 DEF FsStart
<1>7. fsCall'[c].calm = b
  BY <1>3 DEF FsCallRecords
<1>8. fsCall'[c].calm => \A x \in FsClients : ~ Clash(call, fsCall[x])
  BY <1>3, <1>7, Zenon
<1>9. fsCall[c] = Resting
  BY DEF FsStart, FsShape
<1>10. SameCall(fsCall'[c], call)
  BY <1>3 DEF FsCallRecords, SameCall
<1>11. ASSUME NEW o \in FsClients \ {c}
       PROVE /\ SameCall(fsCall'[o], fsCall[o])
             /\ fsCall'[o].calm => fsCall[o].calm /\ ~ Clash(call, fsCall[o])
             /\ fsCall[o] = Resting => fsCall'[o] = Resting
  <2>1. CASE Clash(call, fsCall[o])
    <3>1. fsCall'[o] = [fsCall[o] EXCEPT !.calm = FALSE]
      BY <1>2, <2>1
    <3>2. SameCall(fsCall'[o], fsCall[o]) /\ fsCall'[o].calm = FALSE
      BY <1>1, <3>1 DEF FsCallRecords, SameCall
    <3>3. fsCall[o].op # "none"
      BY <2>1 DEF Clash
    <3> QED
      BY <3>2, <3>3 DEF Resting
  <2>2. CASE ~ Clash(call, fsCall[o])
    BY <1>2, <2>2 DEF SameCall
  <2> QED
    BY <2>1, <2>2
<1> QED
  BY <1>6, <1>8, <1>9, <1>10, <1>11

LEMMA ClashOfSame ==
  ASSUME NEW a, NEW b, NEW c, NEW d, SameCall(a, b), SameCall(c, d)
  PROVE  /\ Clash(a, c) <=> Clash(b, d)
         /\ Clash(a, c) <=> Clash(c, a)
BY DEF Clash, SameCall

LEMMA FsInvStart ==
  ASSUME FsInv, NEW c \in FsClients, NEW call \in FsCallRecords, FsStart(c, call),
         call.at = 1,
         \/ call.op = "put" /\ call.step = "check" /\ call.content # 0
         \/ call.op = "delete" /\ call.step = "none",
         UNCHANGED <<fsFile, fsWhole, fsBroken>>
  PROVE  FsInv'
<1> USE DEF FsInv
<1>1. /\ fsCall[c] = Resting
      /\ fsCall' \in [FsClients -> FsCallRecords]
      /\ SameCall(fsCall'[c], call)
      /\ fsCall'[c].calm => \A x \in FsClients : ~ Clash(call, fsCall[x])
  BY FsStartCalls
<1>2. \A o \in FsClients : o # c =>
        /\ SameCall(fsCall'[o], fsCall[o])
        /\ fsCall'[o].calm => fsCall[o].calm /\ ~ Clash(call, fsCall[o])
        /\ fsCall[o] = Resting => fsCall'[o] = Resting
  BY FsStartCalls
<1>3. 1 \in Transports
  BY FsAssumption DEF Transports
<1>4. fsDone' = fsDone \/ fsDone' = [o \in FsClients |-> 0]
  BY DEF FsStart
<1>5. Disturbs(call) => fsDone' = [o \in FsClients |-> 0]
  BY DEF FsStart, Disturbs
<1>6. FsShape'
  <2>1. /\ fsFile' \in [Transports -> Nat]
        /\ fsWhole' \in [Transports -> BOOLEAN]
        /\ fsDone' \in [FsClients -> Nat \cup {AnyContent}]
    BY <1>4 DEF FsShape, AnyContent
  <2>2. ASSUME NEW o \in FsClients
        PROVE  /\ fsCall'[o].op = "none" => fsCall'[o] = Resting
               /\ fsCall'[o].op = "put" => /\ fsCall'[o].at \in Transports
                                           /\ fsCall'[o].content # 0
                                           /\ fsCall'[o].step \in {"check", "write", "verify"}
               /\ fsCall'[o].op = "delete" => /\ fsCall'[o].at \in Transports
                                              /\ fsCall'[o].step = "none"
    <3>1. CASE o = c
      BY <1>1, <1>3, <3>1 DEF SameCall
    <3>2. CASE o # c
      BY <1>2, <3>2 DEF SameCall, FsShape
    <3> QED
      BY <3>1, <3>2
  <2> QED
    BY <1>1, <2>1, <2>2 DEF FsShape, AnyContent, Transports
<1>7. CalmApart'
  <2> SUFFICES ASSUME NEW a \in FsClients, NEW x \in FsClients, a # x, fsCall'[a].calm
               PROVE  ~ Clash(fsCall'[a], fsCall'[x])
    BY DEF CalmApart
  <2>1. CASE a = c
    BY <1>1, <1>2, <2>1, ClashOfSame
  <2>2. CASE x = c
    <3>1. ~ Clash(call, fsCall[a])
      BY <1>2, <2>2
    <3>2. SameCall(call, call)
      BY DEF SameCall
    <3> QED
      BY <1>1, <1>2, <2>2, <3>1, <3>2, ClashOfSame
  <2>3. CASE a # c /\ x # c
    BY <1>2, <2>3, ClashOfSame DEF CalmApart
  <2> QED
    BY <2>1, <2>2, <2>3
<1>8. PutSoFar'
  <2> SUFFICES ASSUME NEW o \in FsClients, fsCall'[o].op = "put", fsCall'[o].calm,
                      NEW t \in Transports, Past(fsCall'[o], t)
               PROVE  fsFile[t] # 0 /\ (fsCall'[o].force => fsFile[t] = fsCall'[o].content)
    BY DEF PutSoFar, Transports
  <2>1. o # c
    BY <1>1 DEF Past, SameCall, Transports
  <2> QED
    BY <1>2, <2>1 DEF PutSoFar, Past, SameCall
<1>9. DoneApart'
  <2> SUFFICES ASSUME NEW o \in FsClients, NEW x \in FsClients, fsDone'[o] # 0
               PROVE  /\ ~ Disturbs(fsCall'[x])
                      /\ fsDone'[o] # AnyContent => fsCall'[x].step # "write"
    BY DEF DoneApart, AnyContent
  <2>1. fsDone' = fsDone /\ ~ Disturbs(call)
    BY <1>4, <1>5
  <2>2. CASE x = c
    BY <1>1, <2>1, <2>2 DEF SameCall, Disturbs
  <2>3. CASE x # c
    BY <1>2, <2>1, <2>3 DEF SameCall, Disturbs, DoneApart
  <2> QED
    BY <2>2, <2>3
<1>10. PutsStay'
  BY <1>4 DEF PutsStay, AnyContent, Transports
<1>11. HalfKnown'
  BY DEF HalfKnown, Transports
<1> QED
  BY <1>6, <1>7, <1>8, <1>9, <1>10, <1>11

\* A call that goes on, or ends.
LEMMA FsGoesOn ==
  ASSUME FsShape, CalmApart, NEW c \in FsClients, NEW new \in FsCallRecords,
         fsCall' = [fsCall EXCEPT ![c] = new], fsCall[c].op # "none",
         \/ new = Resting
         \/ /\ new.op = fsCall[c].op /\ new.content = fsCall[c].content
            /\ new.force = fsCall[c].force /\ new.calm = fsCall[c].calm
            /\ new.at \in Transports
            /\ new.op = "put" => new.step \in {"check", "write", "verify"}
            /\ new.op = "delete" => new.step = "none"
  PROVE  /\ fsCall' \in [FsClients -> FsCallRecords]
         /\ \A o \in FsClients : fsCall'[o].op = "none" => fsCall'[o] = Resting
         /\ \A o \in FsClients : fsCall'[o].op = "put" =>
              /\ fsCall'[o].at \in Transports /\ fsCall'[o].content # 0
              /\ fsCall'[o].step \in {"check", "write", "verify"}
         /\ \A o \in FsClients : fsCall'[o].op = "delete" =>
              fsCall'[o].at \in Transports /\ fsCall'[o].step = "none"
         /\ CalmApart'
         /\ \A x \in FsClients : Disturbs(fsCall'[x]) => Disturbs(fsCall[x])
         /\ \A x \in FsClients : x # c => fsCall'[x] = fsCall[x]
         /\ fsCall'[c] = new
<1>1. \A x \in FsClients : x # c => fsCall'[x] = fsCall[x]
  BY DEF FsShape
<1>2. fsCall'[c] = new
  BY DEF FsShape
<1>3. fsCall' \in [FsClients -> FsCallRecords]
  BY DEF FsShape
<1>4. ASSUME NEW o \in FsClients
      PROVE  /\ fsCall'[o].op = "none" => fsCall'[o] = Resting
             /\ fsCall'[o].op = "put" => /\ fsCall'[o].at \in Transports
                                         /\ fsCall'[o].content # 0
                                         /\ fsCall'[o].step \in {"check", "write", "verify"}
             /\ fsCall'[o].op = "delete" => /\ fsCall'[o].at \in Transports
                                            /\ fsCall'[o].step = "none"
             /\ Disturbs(fsCall'[o]) => Disturbs(fsCall[o])
  <2>1. CASE o = c /\ new = Resting
    BY <1>2, <2>1 DEF Resting, Disturbs
  <2>2. CASE o = c /\ new # Resting
    BY <1>2, <2>2 DEF Disturbs, FsShape
  <2>3. CASE o # c
    BY <1>1, <2>3 DEF FsShape
  <2> QED
    BY <2>1, <2>2, <2>3
<1>5. CalmApart'
  <2> SUFFICES ASSUME NEW a \in FsClients, NEW x \in FsClients, a # x, fsCall'[a].calm
               PROVE  ~ Clash(fsCall'[a], fsCall'[x])
    BY DEF CalmApart
  <2>1. CASE new = Resting /\ c \in {a, x}
    BY <1>2, <2>1 DEF Resting, Clash
  <2>2. CASE new # Resting \/ c \notin {a, x}
    <3>1. \A o \in {a, x} : /\ fsCall'[o].op = fsCall[o].op /\ fsCall'[o].force = fsCall[o].force
                            /\ fsCall'[o].calm = fsCall[o].calm
      BY <1>1, <1>2, <2>2
    <3> QED
      BY <3>1 DEF CalmApart, Clash
  <2> QED
    BY <2>1, <2>2
<1> QED
  BY <1>1, <1>2, <1>3, <1>4, <1>5

\* A put that finds the file on the transport at hand goes on, or returns.
LEMMA FsInvPutGoesOn ==
  ASSUME FsInv, NEW c \in FsClients, fsCall[c].op = "put", fsFile[fsCall[c].at] # 0,
         fsCall[c].calm /\ fsCall[c].force => fsFile[fsCall[c].at] = fsCall[c].content,
         PutReturns(c), Advance(c, "check", Resting), UNCHANGED <<fsFile, fsWhole, fsBroken>>
  PROVE  FsInv'
<1> USE DEF FsInv
<1> DEFINE at == fsCall[c].at
           new == IF at < FsCount THEN [fsCall[c] EXCEPT !.at = at + 1, !.step = "check"]
                                  ELSE Resting
<1>1. fsCall[c] \in FsCallRecords /\ at \in Transports /\ FsCount \in Nat
  BY FsAssumption DEF FsShape
<1>2. /\ new \in FsCallRecords
      /\ \/ new = Resting /\ at = FsCount
         \/ /\ new.op = fsCall[c].op /\ new.content = fsCall[c].content
            /\ new.force = fsCall[c].force /\ new.calm = fsCall[c].calm
            /\ new.at \in Transports /\ new.step = "check" /\ new.at = at + 1 /\ at < FsCount
  <2>1. CASE at < FsCount
    <3>1. new = [fsCall[c] EXCEPT !.at = at + 1, !.step = "check"]
      BY <2>1
    <3>2. at + 1 \in Transports /\ at + 1 \in Nat
      BY <1>1, <2>1 DEF Transports
    <3> HIDE DEF new
    <3>3. new \in FsCallRecords
      BY <1>1, <3>1, <3>2 DEF FsCallRecords
    <3>4. /\ new.op = fsCall[c].op /\ new.content = fsCall[c].content
          /\ new.force = fsCall[c].force /\ new.calm = fsCall[c].calm
          /\ new.step = "check" /\ new.at = at + 1
      BY <1>1, <3>1 DEF FsCallRecords
    <3> QED
      BY <2>1, <3>2, <3>3, <3>4
  <2>2. CASE at = FsCount
    <3>1. new = Resting
      BY <1>1, <2>2
    <3>2. Resting \in FsCallRecords
      BY DEF FsCallRecords, Resting
    <3> QED
      BY <2>2, <3>1, <3>2
  <2> QED
    BY <1>1, <2>1, <2>2 DEF Transports
<1>3. fsCall' = [fsCall EXCEPT ![c] = new]
  BY DEF Advance
<1> HIDE DEF new
<1>4. /\ fsCall' \in [FsClients -> FsCallRecords]
      /\ \A o \in FsClients : fsCall'[o].op = "none" => fsCall'[o] = Resting
      /\ \A o \in FsClients : fsCall'[o].op = "put" =>
           /\ fsCall'[o].at \in Transports /\ fsCall'[o].content # 0
           /\ fsCall'[o].step \in {"check", "write", "verify"}
      /\ \A o \in FsClients : fsCall'[o].op = "delete" =>
           fsCall'[o].at \in Transports /\ fsCall'[o].step = "none"
      /\ CalmApart'
      /\ \A x \in FsClients : Disturbs(fsCall'[x]) => Disturbs(fsCall[x])
      /\ \A x \in FsClients : x # c => fsCall'[x] = fsCall[x]
      /\ fsCall'[c] = new
  <2>1. \/ new = Resting
        \/ /\ new.op = fsCall[c].op /\ new.content = fsCall[c].content
           /\ new.force = fsCall[c].force /\ new.calm = fsCall[c].calm
           /\ new.at \in Transports
           /\ new.op = "put" => new.step \in {"check", "write", "verify"}
           /\ new.op = "delete" => new.step = "none"
    BY <1>2
  <2> HIDE DEF at
  <2> QED
    BY <1>2, <1>3, <2>1, FsGoesOn
<1>5. \A t \in Transports : fsCall[c].calm /\ t <= at =>
        fsFile[t] # 0 /\ (fsCall[c].force => fsFile[t] = fsCall[c].content)
  BY <1>1 DEF PutSoFar, Past, Transports
<1>6. \/ at < FsCount /\ fsDone' = fsDone /\ new # Resting
      \/ at = FsCount /\ new = Resting /\ fsDone' = [fsDone EXCEPT ![c] = LeftBehind(fsCall[c])]
  BY <1>1, <1>2 DEF PutReturns, Transports, Resting
<1>7. LeftBehind(fsCall[c]) \in Nat \cup {AnyContent}
  BY <1>1 DEF LeftBehind, FsCallRecords
<1>8. FsShape'
  <2>1. fsDone' \in [FsClients -> Nat \cup {AnyContent}]
    BY <1>6, <1>7 DEF FsShape
  <2> QED
    BY <1>4, <2>1 DEF FsShape, AnyContent, Transports
<1>9. PutSoFar'
  <2> SUFFICES ASSUME NEW o \in FsClients, fsCall'[o].op = "put", fsCall'[o].calm,
                      NEW t \in Transports, Past(fsCall'[o], t)
               PROVE  fsFile[t] # 0 /\ (fsCall'[o].force => fsFile[t] = fsCall'[o].content)
    BY DEF PutSoFar, Transports
  <2>1. CASE o = c
    <3>1. new # Resting
      BY <1>4, <2>1 DEF Resting
    <3>2. t <= at
      BY <1>1, <1>2, <1>4, <2>1, <3>1 DEF Past, Transports
    <3> QED
      BY <1>2, <1>4, <1>5, <2>1, <3>1, <3>2
  <2>2. CASE o # c
    BY <1>4, <2>2 DEF PutSoFar
  <2> QED
    BY <2>1, <2>2
<1>10. \A x \in FsClients : x # c /\ fsCall[c].calm => ~ Clash(fsCall[c], fsCall[x])
  BY DEF CalmApart
<1>11. DoneApart'
  <2> SUFFICES ASSUME NEW o \in FsClients, NEW x \in FsClients, fsDone'[o] # 0
               PROVE  /\ ~ Disturbs(fsCall'[x])
                      /\ fsDone'[o] # AnyContent => fsCall'[x].step # "write"
    BY DEF DoneApart, AnyContent
  <2>1. fsCall'[x].step = "write" => x # c /\ fsCall[x].step = "write"
    BY <1>2, <1>4 DEF Resting
  <2>2. CASE fsDone'[o] = fsDone[o]
    BY <1>4, <2>1, <2>2 DEF DoneApart
  <2>3. CASE fsDone'[o] # fsDone[o]
    <3>1. o = c /\ fsDone'[c] = LeftBehind(fsCall[c]) /\ new = Resting
      BY <1>6, <2>3 DEF FsShape
    <3>2. fsCall[c].calm
      BY <3>1 DEF LeftBehind
    <3>3. CASE x = c
      BY <1>4, <3>1, <3>3 DEF Resting, Disturbs
    <3>4. CASE x # c
      <4>1. ~ Clash(fsCall[c], fsCall[x]) /\ fsCall'[x] = fsCall[x]
        BY <1>4, <1>10, <3>2, <3>4
      <4>2. ~ Disturbs(fsCall[x])
        BY <4>1 DEF Clash, Disturbs
      <4>3. fsDone'[o] # AnyContent => fsCall[c].force
        BY <3>1, <3>2 DEF LeftBehind
      <4>4. fsCall[c].force => fsCall[x].op \notin {"put", "delete"}
        BY <4>1 DEF Clash
      <4>5. fsCall[x].op \notin {"put", "delete"} => fsCall[x].step # "write"
        BY DEF FsShape, FsCallRecords, Resting
      <4> QED
        BY <4>1, <4>2, <4>3, <4>4, <4>5
    <3> QED
      BY <3>3, <3>4
  <2> QED
    BY <2>2, <2>3
<1>12. PutsStay'
  <2> SUFFICES ASSUME NEW o \in FsClients, fsDone'[o] # 0, NEW t \in Transports
               PROVE  /\ fsFile[t] # 0
                      /\ fsDone'[o] # AnyContent => fsFile[t] = fsDone'[o]
                      /\ fsWhole[t] \/ t \in fsBroken
    BY DEF PutsStay, AnyContent, Transports
  <2>0. fsWhole[t] \/ t \in fsBroken
    BY DEF HalfKnown
  <2>1. CASE fsDone'[o] = fsDone[o]
    BY <2>0, <2>1 DEF PutsStay
  <2>2. CASE fsDone'[o] # fsDone[o]
    <3>1. o = c /\ fsDone'[c] = LeftBehind(fsCall[c]) /\ at = FsCount
      BY <1>6, <2>2 DEF FsShape
    <3>2. fsCall[c].calm /\ t <= at
      BY <3>1 DEF LeftBehind, Transports
    <3>3. fsFile[t] # 0 /\ (fsCall[c].force => fsFile[t] = fsCall[c].content)
      BY <1>5, <3>2
    <3>4. fsDone'[c] # AnyContent => fsCall[c].force /\ fsDone'[c] = fsCall[c].content
      BY <3>1, <3>2 DEF LeftBehind
    <3> QED
      BY <2>0, <3>1, <3>3, <3>4
  <2> QED
    BY <2>1, <2>2
<1>13. HalfKnown'
  BY DEF HalfKnown, Transports
<1> QED
  BY <1>4, <1>8, <1>9, <1>11, <1>12, <1>13

LEMMA FsInvSkip ==
  ASSUME FsInv, NEW c \in FsClients, Skip(c)
  PROVE  FsInv'
<1>1. fsCall[c].op = "put" /\ fsFile[fsCall[c].at] # 0 /\ ~ fsCall[c].force
  BY DEF Skip, InPut
<1> QED
  BY <1>1, FsInvPutGoesOn DEF Skip

\* A call that ends where it is, and leaves nothing that can be relied on.
LEMMA FsInvGivesUp ==
  ASSUME FsInv, NEW c \in FsClients, fsCall[c].op # "none",
         fsCall' = [fsCall EXCEPT ![c] = Resting], UNCHANGED <<fsFile, fsWhole, fsBroken, fsDone>>
  PROVE  FsInv'
<1> USE DEF FsInv
<1>1. Resting \in FsCallRecords /\ Resting.op = "none" /\ Resting.step = "none"
  BY DEF FsCallRecords, Resting
<1>2. /\ fsCall' \in [FsClients -> FsCallRecords]
      /\ \A o \in FsClients : fsCall'[o].op = "none" => fsCall'[o] = Resting
      /\ \A o \in FsClients : fsCall'[o].op = "put" =>
           /\ fsCall'[o].at \in Transports /\ fsCall'[o].content # 0
           /\ fsCall'[o].step \in {"check", "write", "verify"}
      /\ \A o \in FsClients : fsCall'[o].op = "delete" =>
           fsCall'[o].at \in Transports /\ fsCall'[o].step = "none"
      /\ CalmApart'
      /\ \A x \in FsClients : Disturbs(fsCall'[x]) => Disturbs(fsCall[x])
      /\ \A x \in FsClients : x # c => fsCall'[x] = fsCall[x]
      /\ fsCall'[c] = Resting
  BY <1>1, FsGoesOn
<1>3. FsShape'
  BY <1>2 DEF FsShape, AnyContent, Transports
<1>4. PutSoFar'
  BY <1>1, <1>2 DEF PutSoFar, Past, Transports
<1>5. DoneApart'
  BY <1>1, <1>2 DEF DoneApart, AnyContent
<1> QED
  BY <1>2, <1>3, <1>4, <1>5 DEF PutsStay, HalfKnown, AnyContent, Transports

LEMMA FsInvVerify ==
  ASSUME FsInv, NEW c \in FsClients, Verify(c)
  PROVE  FsInv'
<1> USE DEF FsInv
<1>1. fsCall[c].op = "put" /\ fsCall[c].step = "verify" /\ fsCall[c].at \in Transports
  BY DEF Verify, InPut, FsShape
<1>2. CASE fsFile[fsCall[c].at] # 0
  <2>1. fsCall[c].calm /\ fsCall[c].force => fsFile[fsCall[c].at] = fsCall[c].content
    BY <1>1 DEF PutSoFar, Past
  <2>2. PutReturns(c) /\ Advance(c, "check", Resting) /\ UNCHANGED <<fsFile, fsWhole, fsBroken>>
    BY <1>2 DEF Verify
  <2> QED
    BY <1>1, <1>2, <2>1, <2>2, FsInvPutGoesOn
<1>3. CASE fsFile[fsCall[c].at] = 0
  <2>1. fsCall' = [fsCall EXCEPT ![c] = Resting] /\ UNCHANGED <<fsFile, fsWhole, fsBroken, fsDone>>
    BY <1>3 DEF Verify
  <2> QED
    BY <1>1, <2>1, FsInvGivesUp
<1> QED
  BY <1>2, <1>3

LEMMA FsInvWriteTemporary ==
  ASSUME FsInv, NEW c \in FsClients, WriteTemporary(c)
  PROVE  FsInv'
<1> USE DEF FsInv
<1> DEFINE new == [fsCall[c] EXCEPT !.step = "write"]
<1>1. fsCall[c] \in FsCallRecords /\ fsCall[c].op = "put"
  BY DEF WriteTemporary, InPut, FsShape
<1>2. /\ new \in FsCallRecords
      /\ new.op = fsCall[c].op /\ new.content = fsCall[c].content
      /\ new.force = fsCall[c].force /\ new.calm = fsCall[c].calm
      /\ new.at = fsCall[c].at /\ new.step = "write"
  BY <1>1 DEF FsCallRecords
<1>3. fsCall' = [fsCall EXCEPT ![c] = new] /\ UNCHANGED <<fsFile, fsWhole, fsBroken, fsDone>>
  BY DEF WriteTemporary, FsShape
<1> HIDE DEF new
<1>4. fsCall[c].at \in Transports
  BY <1>1 DEF FsShape
<1>5. /\ fsCall' \in [FsClients -> FsCallRecords]
      /\ \A o \in FsClients : fsCall'[o].op = "none" => fsCall'[o] = Resting
      /\ \A o \in FsClients : fsCall'[o].op = "put" =>
           /\ fsCall'[o].at \in Transports /\ fsCall'[o].content # 0
           /\ fsCall'[o].step \in {"check", "write", "verify"}
      /\ \A o \in FsClients : fsCall'[o].op = "delete" =>
           fsCall'[o].at \in Transports /\ fsCall'[o].step = "none"
      /\ CalmApart'
      /\ \A x \in FsClients : Disturbs(fsCall'[x]) => Disturbs(fsCall[x])
      /\ \A x \in FsClients : x # c => fsCall'[x] = fsCall[x]
      /\ fsCall'[c] = new
  BY <1>1, <1>2, <1>3, <1>4, FsGoesOn
<1>6. FsShape'
  BY <1>3, <1>5 DEF FsShape, AnyContent, Transports
<1>7. PutSoFar'
  <2> SUFFICES ASSUME NEW o \in FsClients, fsCall'[o].op = "put", fsCall'[o].calm,
                      NEW t \in Transports, Past(fsCall'[o], t)
               PROVE  fsFile[t] # 0 /\ (fsCall'[o].force => fsFile[t] = fsCall'[o].content)
    BY <1>3 DEF PutSoFar, Transports
  <2>1. fsCall[o].op = "put" /\ fsCall[o].calm /\ Past(fsCall[o], t)
    BY <1>2, <1>5 DEF Past
  <2> QED
    BY <1>2, <1>5, <2>1 DEF PutSoFar
<1>8. DoneApart'
  <2> SUFFICES ASSUME NEW o \in FsClients, NEW x \in FsClients, fsDone[o] # 0
               PROVE  /\ ~ Disturbs(fsCall'[x])
                      /\ fsDone[o] # AnyContent => fsCall'[x].step # "write"
    BY <1>3 DEF DoneApart, AnyContent
  <2>1. ~ Disturbs(fsCall[x]) /\ ~ Disturbs(fsCall[c])
    BY DEF DoneApart
  <2>2. fsFile[fsCall[c].at] # 0
    BY <1>4 DEF PutsStay
  <2>3. FALSE
    BY <1>1, <2>1, <2>2 DEF WriteTemporary, Disturbs
  <2> QED
    BY <2>3
<1> QED
  BY <1>3, <1>5, <1>6, <1>7, <1>8 DEF PutsStay, HalfKnown, AnyContent, Transports

\* A put that leaves its content on the transport at hand, whole or not, and
\* goes on there or gives up.
LEMMA FsInvPutWrites ==
  ASSUME FsInv, NEW c \in FsClients, NEW new \in FsCallRecords,
         fsCall[c].op = "put", fsCall[c].step = "write",
         fsCall' = [fsCall EXCEPT ![c] = new],
         new = Resting \/ new = [fsCall[c] EXCEPT !.step = "verify"],
         fsFile' = [fsFile EXCEPT ![fsCall[c].at] = fsCall[c].content],
         fsWhole' \in [Transports -> BOOLEAN], HalfKnown', UNCHANGED fsDone
  PROVE  FsInv'
<1> USE DEF FsInv
<1> DEFINE at == fsCall[c].at
<1>1. /\ fsCall[c] \in FsCallRecords /\ at \in Transports
      /\ fsCall[c].content \in Nat \ {0} /\ Resting.op = "none"
  BY DEF FsShape, FsCallRecords, Resting
<1>2. \/ new = Resting
      \/ /\ new.op = fsCall[c].op /\ new.content = fsCall[c].content
         /\ new.force = fsCall[c].force /\ new.calm = fsCall[c].calm
         /\ new.at = at /\ new.step = "verify"
  BY <1>1 DEF FsCallRecords
<1>3. /\ fsCall' \in [FsClients -> FsCallRecords]
      /\ \A o \in FsClients : fsCall'[o].op = "none" => fsCall'[o] = Resting
      /\ \A o \in FsClients : fsCall'[o].op = "put" =>
           /\ fsCall'[o].at \in Transports /\ fsCall'[o].content # 0
           /\ fsCall'[o].step \in {"check", "write", "verify"}
      /\ \A o \in FsClients : fsCall'[o].op = "delete" =>
           fsCall'[o].at \in Transports /\ fsCall'[o].step = "none"
      /\ CalmApart'
      /\ \A x \in FsClients : Disturbs(fsCall'[x]) => Disturbs(fsCall[x])
      /\ \A x \in FsClients : x # c => fsCall'[x] = fsCall[x]
      /\ fsCall'[c] = new
  BY <1>1, <1>2, FsGoesOn
<1>4. /\ fsFile' \in [Transports -> Nat] /\ fsFile'[at] = fsCall[c].content
      /\ \A t \in Transports : t # at => fsFile'[t] = fsFile[t]
  BY <1>1 DEF FsShape
<1>5. FsShape'
  BY <1>3, <1>4 DEF FsShape, AnyContent, Transports
<1>6. PutSoFar'
  <2> SUFFICES ASSUME NEW o \in FsClients, fsCall'[o].op = "put", fsCall'[o].calm,
                      NEW t \in Transports, Past(fsCall'[o], t)
               PROVE  fsFile'[t] # 0 /\ (fsCall'[o].force => fsFile'[t] = fsCall'[o].content)
    BY DEF PutSoFar, Transports
  <2>1. CASE o = c
    <3>1. new # Resting
      BY <1>1, <1>3, <2>1
    <3>2. t # at => Past(fsCall[c], t)
      BY <1>2, <1>3, <2>1, <3>1 DEF Past
    <3>3. fsCall[c].calm
      BY <1>2, <1>3, <2>1, <3>1
    <3>4. t # at => fsFile[t] # 0 /\ (fsCall[c].force => fsFile[t] = fsCall[c].content)
      BY <3>2, <3>3 DEF PutSoFar
    <3> QED
      BY <1>1, <1>2, <1>3, <1>4, <2>1, <3>1, <3>4
  <2>2. CASE o # c
    <3>1. fsCall'[o] = fsCall[o]
      BY <1>3, <2>2
    <3>2. ~ fsCall[o].force
      BY <2>2, <3>1 DEF CalmApart, Clash
    <3>3. fsFile[t] # 0
      BY <3>1 DEF PutSoFar
    <3> QED
      BY <1>1, <1>4, <3>1, <3>2, <3>3
  <2> QED
    BY <2>1, <2>2
<1>7. DoneApart'
  <2> SUFFICES ASSUME NEW o \in FsClients, NEW x \in FsClients, fsDone[o] # 0
               PROVE  /\ ~ Disturbs(fsCall'[x])
                      /\ fsDone[o] # AnyContent => fsCall'[x].step # "write"
    BY DEF DoneApart, AnyContent
  <2>1. fsDone[o] = AnyContent
    BY DEF DoneApart
  <2> QED
    BY <1>3, <2>1 DEF DoneApart
<1>8. PutsStay'
  <2> SUFFICES ASSUME NEW o \in FsClients, fsDone[o] # 0, NEW t \in Transports
               PROVE  /\ fsFile'[t] # 0
                      /\ fsDone[o] # AnyContent => fsFile'[t] = fsDone[o]
                      /\ fsWhole'[t] \/ t \in fsBroken'
    BY DEF PutsStay, AnyContent, Transports
  <2>1. fsDone[o] = AnyContent
    BY DEF DoneApart
  <2>2. fsFile[t] # 0
    BY DEF PutsStay
  <2>3. fsWhole'[t] \/ t \in fsBroken'
    BY DEF HalfKnown, Transports
  <2> QED
    BY <1>1, <1>4, <2>1, <2>2, <2>3
<1> QED
  BY <1>3, <1>5, <1>6, <1>7, <1>8

LEMMA FsInvRename ==
  ASSUME FsInv, NEW c \in FsClients, Rename(c)
  PROVE  FsInv'
<1>1. fsCall[c] \in FsCallRecords /\ fsCall[c].op = "put" /\ fsCall[c].step = "write"
  BY DEF Rename, InPut, FsInv, FsShape
<1>2. [fsCall[c] EXCEPT !.step = "verify"] \in FsCallRecords
  BY <1>1 DEF FsCallRecords
<1>3. /\ fsCall' = [fsCall EXCEPT ![c] = [fsCall[c] EXCEPT !.step = "verify"]]
      /\ fsFile' = [fsFile EXCEPT ![fsCall[c].at] = fsCall[c].content]
      /\ UNCHANGED fsDone
  BY DEF Rename, FsInv, FsShape
<1>4. fsWhole' \in [Transports -> BOOLEAN] /\ HalfKnown'
  BY DEF Rename, FsInv, FsShape, HalfKnown, Transports
<1> QED
  BY <1>1, <1>2, <1>3, <1>4, FsInvPutWrites

LEMMA FsInvPutRaises ==
  ASSUME FsInv, NEW c \in FsClients, PutRaises(c)
  PROVE  FsInv'
<1>1. /\ fsCall[c].op = "put"
      /\ fsCall' = [fsCall EXCEPT ![c] = Resting] /\ UNCHANGED fsDone
  BY DEF PutRaises
<1>2. CASE fsCall[c].step = "write" /\ fsCall[c].at \in FsLocal
  <2>1. Resting \in FsCallRecords
    BY DEF FsCallRecords, Resting
  <2>2. fsFile' = [fsFile EXCEPT ![fsCall[c].at] = fsCall[c].content]
    BY <1>2 DEF PutRaises
  <2>3. fsWhole' \in [Transports -> BOOLEAN] /\ HalfKnown'
    BY <1>2 DEF PutRaises, FsInv, FsShape, HalfKnown, Transports
  <2> QED
    BY <1>1, <1>2, <2>1, <2>2, <2>3, FsInvPutWrites
<1>3. CASE ~ (fsCall[c].step = "write" /\ fsCall[c].at \in FsLocal)
  <2>1. UNCHANGED <<fsFile, fsWhole, fsBroken>>
    BY <1>3 DEF PutRaises
  <2> QED
    BY <1>1, <2>1, FsInvGivesUp
<1> QED
  BY <1>2, <1>3

\* A deletion under way leaves nothing to rely on, and no other call calm.
LEMMA FsInvDeleteAt ==
  ASSUME FsInv, NEW c \in FsClients, NEW fails \in BOOLEAN, DeleteAt(c, fails)
  PROVE  FsInv'
<1> USE DEF FsInv
<1> DEFINE at == fsCall[c].at
           new == IF at < FsCount THEN [fsCall[c] EXCEPT !.at = at + 1, !.step = "none"]
                                  ELSE Resting
<1>1. /\ fsCall[c] \in FsCallRecords /\ at \in Transports /\ FsCount \in Nat
      /\ fsCall[c].op = "delete"
  BY FsAssumption DEF FsShape, DeleteAt
<1>2. /\ new \in FsCallRecords
      /\ \/ new = Resting
         \/ /\ new.op = fsCall[c].op /\ new.content = fsCall[c].content
            /\ new.force = fsCall[c].force /\ new.calm = fsCall[c].calm
            /\ new.at \in Transports /\ new.step = "none"
  <2>1. CASE at < FsCount
    <3>1. new = [fsCall[c] EXCEPT !.at = at + 1, !.step = "none"]
      BY <2>1
    <3>2. at + 1 \in Transports /\ at + 1 \in Nat
      BY <1>1, <2>1 DEF Transports
    <3> HIDE DEF new
    <3>3. new \in FsCallRecords
      BY <1>1, <3>1, <3>2 DEF FsCallRecords
    <3>4. /\ new.op = fsCall[c].op /\ new.content = fsCall[c].content
          /\ new.force = fsCall[c].force /\ new.calm = fsCall[c].calm
          /\ new.step = "none" /\ new.at = at + 1
      BY <1>1, <3>1 DEF FsCallRecords
    <3> QED
      BY <3>2, <3>3, <3>4
  <2>2. CASE ~ (at < FsCount)
    <3>1. new = Resting
      BY <2>2
    <3>2. Resting \in FsCallRecords
      BY DEF FsCallRecords, Resting
    <3> QED
      BY <3>1, <3>2
  <2> QED
    BY <2>1, <2>2
<1>3. fsCall' = [fsCall EXCEPT ![c] = new] /\ UNCHANGED <<fsWhole, fsDone, fsBroken>>
  BY DEF DeleteAt, Advance
<1> HIDE DEF new
<1>4. /\ fsCall' \in [FsClients -> FsCallRecords]
      /\ \A o \in FsClients : fsCall'[o].op = "none" => fsCall'[o] = Resting
      /\ \A o \in FsClients : fsCall'[o].op = "put" =>
           /\ fsCall'[o].at \in Transports /\ fsCall'[o].content # 0
           /\ fsCall'[o].step \in {"check", "write", "verify"}
      /\ \A o \in FsClients : fsCall'[o].op = "delete" =>
           fsCall'[o].at \in Transports /\ fsCall'[o].step = "none"
      /\ CalmApart'
      /\ \A x \in FsClients : Disturbs(fsCall'[x]) => Disturbs(fsCall[x])
      /\ \A x \in FsClients : x # c => fsCall'[x] = fsCall[x]
      /\ fsCall'[c] = new
  <2>1. \/ new = Resting
        \/ /\ new.op = fsCall[c].op /\ new.content = fsCall[c].content
           /\ new.force = fsCall[c].force /\ new.calm = fsCall[c].calm
           /\ new.at \in Transports
           /\ new.op = "put" => new.step \in {"check", "write", "verify"}
           /\ new.op = "delete" => new.step = "none"
    BY <1>1, <1>2
  <2>2. fsCall[c].op # "none"
    BY <1>1
  <2> HIDE DEF at
  <2> QED
    BY <1>2, <1>3, <2>1, <2>2, FsGoesOn
<1>5. fsFile' \in [Transports -> Nat]
  BY <1>1 DEF DeleteAt, FsShape
<1>6. FsShape'
  BY <1>3, <1>4, <1>5 DEF FsShape, AnyContent, Transports
<1>7. \A o \in FsClients : fsDone[o] = 0
  BY <1>1 DEF DoneApart, Disturbs
<1>8. \A o \in FsClients : ~ (fsCall'[o].op = "put" /\ fsCall'[o].calm)
  <2> SUFFICES ASSUME NEW o \in FsClients, fsCall'[o].op = "put", fsCall'[o].calm PROVE FALSE
    OBVIOUS
  <2>1. o # c
    BY <1>1, <1>2, <1>4 DEF Resting
  <2>2. ~ Clash(fsCall[o], fsCall[c])
    BY <1>4, <2>1 DEF CalmApart
  <2> QED
    BY <1>1, <1>4, <2>1, <2>2 DEF Clash
<1> QED
  BY <1>3, <1>4, <1>6, <1>7, <1>8
     DEF PutSoFar, DoneApart, PutsStay, HalfKnown, AnyContent, Transports

LEMMA FsInvStep == FsInv /\ [FsNext]_fsVars => FsInv'
<1> SUFFICES ASSUME FsInv, [FsNext]_fsVars PROVE FsInv'
  OBVIOUS
<1>1. ASSUME NEW c \in FsClients, NEW content \in Contents, NEW force \in BOOLEAN,
             StartPut(c, content, force)
      PROVE  FsInv'
  <2> DEFINE call == [Resting EXCEPT !.op = "put", !.at = 1, !.step = "check",
                                     !.content = content, !.force = force]
  <2>1. /\ call \in FsCallRecords /\ call.at = 1 /\ call.op = "put" /\ call.step = "check"
        /\ call.content # 0
    <3> DEFINE first == [Resting EXCEPT !.op = "put", !.at = 1]
               second == [first EXCEPT !.step = "check"]
               third == [second EXCEPT !.content = content]
    <3>1. first \in FsCallRecords /\ first.at = 1 /\ first.op = "put"
      BY DEF Resting, FsCallRecords
    <3>2. call = [third EXCEPT !.force = force]
      BY SMT
    <3> HIDE DEF first, call
    <3>3. second \in FsCallRecords /\ second.at = 1 /\ second.op = "put" /\ second.step = "check"
      BY <3>1 DEF FsCallRecords
    <3> HIDE DEF second
    <3>4. /\ third \in FsCallRecords /\ third.at = 1 /\ third.op = "put" /\ third.step = "check"
          /\ third.content # 0
      BY <3>3 DEF FsCallRecords, Contents
    <3> HIDE DEF third
    <3>5. /\ call \in FsCallRecords /\ call.at = 1 /\ call.op = "put" /\ call.step = "check"
          /\ call.content # 0
      BY <3>2, <3>4 DEF FsCallRecords
    <3> QED
      BY <3>5
  <2>2. FsStart(c, call) /\ UNCHANGED <<fsFile, fsWhole, fsBroken>>
    BY <1>1 DEF StartPut
  <2> HIDE DEF call
  <2> QED
    BY <2>1, <2>2, FsInvStart
<1>2. ASSUME NEW c \in FsClients, StartDelete(c) PROVE FsInv'
  <2> DEFINE call == [Resting EXCEPT !.op = "delete", !.at = 1]
  <2>1. call \in FsCallRecords /\ call.at = 1 /\ call.op = "delete" /\ call.step = "none"
    BY DEF Resting, FsCallRecords
  <2>2. FsStart(c, call) /\ UNCHANGED <<fsFile, fsWhole, fsBroken>>
    BY <1>2 DEF StartDelete
  <2> HIDE DEF call
  <2> QED
    BY <2>1, <2>2, FsInvStart
<1>3. CASE UNCHANGED fsVars
  BY <1>3 DEF fsVars, FsInv, FsShape, CalmApart, PutSoFar, DoneApart, HalfKnown, PutsStay,
              AnyContent, Transports
<1> QED
  BY <1>1, <1>2, <1>3, FsInvSkip, FsInvWriteTemporary, FsInvRename, FsInvVerify,
     FsInvPutRaises, FsInvDeleteAt
     DEF FsNext

\* A put that has returned calm has left the file on every transport, for any
\* number of transports, clients, calls and errors (filestore/__init__.py: put,
\* upload, delete).
THEOREM FsPutsStay == FsSpec => []PutsStay
<1>1. FsInv => PutsStay
  BY DEF FsInv
<1> QED
  BY <1>1, FsInvInit, FsInvStep, PTL DEF FsSpec

----------------------------------------------------------------------------
\* Numbers.

\* A finite set of numbers has a largest and a smallest.
LEMMA FiniteHasMax ==
  ASSUME NEW S \in SUBSET Int, IsFiniteSet(S), S # {}
  PROVE  \E m \in S : \A k \in S : k <= m
<1> DEFINE Larger(k) == {x \in S : x > k}
           T == {U \in SUBSET S : \E k \in S : U = Larger(k)}
<1>1. T \subseteq FiniteSubsetsOf(S) /\ T # {}
  <2>1. \A U \in SUBSET S : IsFiniteSet(U)
    BY FS_Subset
  <2>2. PICK k \in S : TRUE
    OBVIOUS
  <2>3. Larger(k) \in T
    OBVIOUS
  <2> QED
    BY <2>1, <2>3 DEF FiniteSubsetsOf
<1> HIDE DEF T
<1>2. PICK U \in T : \A V \in T : <<V, U>> \notin StrictSubsetOrdering(S)
  BY <1>1, FS_StrictSubsetOrderingWellFounded, WFMin
<1>3. PICK k \in S : U = Larger(k)
  BY DEF T
<1>4. ASSUME NEW x \in S, x > k PROVE FALSE
  <2>1. Larger(x) \in T /\ U \in SUBSET S
    BY DEF T
  <2>2. x \in Int /\ k \in Int /\ \A y \in S : y \in Int
    OBVIOUS
  <2>3. Larger(x) \subseteq U
    <3>1. ASSUME NEW y \in S, y > x PROVE y > k
      BY <1>4, <2>2, <3>1
    <3> QED
      BY <1>3, <3>1
  <2>4. x \in U /\ x \notin Larger(x)
    BY <1>3, <1>4, <2>2
  <2>5. <<Larger(x), U>> \in StrictSubsetOrdering(S)
    BY <2>1, <2>3, <2>4 DEF StrictSubsetOrdering
  <2> QED
    BY <1>2, <2>1, <2>5
<1> QED
  BY <1>4

LEMMA NatHasMin ==
  ASSUME NEW S \in SUBSET Nat, S # {}
  PROVE  \E m \in S : \A k \in S : m <= k
<1>1. PICK m \in S : \A k \in S : <<k, m>> \notin OpToRel(<, Nat)
  BY NatLessThanWellFounded, WFMin
<1>2. ASSUME NEW k \in S PROVE m <= k
  <2>1. <<k, m>> \in Nat \X Nat /\ ~ (k < m)
    BY <1>1 DEF OpToRel
  <2> QED
    BY <2>1
<1> QED
  BY <1>2

----------------------------------------------------------------------------
\* Classifications.

\* What the rules leave alone: the level is as high as the required tokens
\* ask, the groups hold those the subgroups ask for, and if auto, the groups and
\* subgroups that are selected automatically are there.
Closed(m, auto) ==
  /\ m \in Marking
  /\ \A r \in m.req : CmRequireLevel[r] <= m.lvl
  /\ \A s \in m.subgroups : CmRequireGroup[s] \subseteq m.groups
  /\ auto => /\ m.groups # {} => CmAutoGroups \subseteq m.groups
             /\ m.subgroups # {} => CmAutoSubgroups \subseteq m.subgroups

Asked(S) == UNION {CmRequireGroup[s] : s \in S}

LEMMA LevelIsNat ==
  /\ \A l \in CmLevels : l \in Nat
  /\ \A m \in Marking : m.lvl \in CmLevels /\ m.lvl \in Nat
  /\ \A m \in Marking : \A r \in m.req : CmRequireLevel[r] \in CmLevels /\ CmRequireLevel[r] \in Nat
BY CmAssumption DEF Marking

LEMMA RulesLevel ==
  ASSUME NEW m \in Marking, NEW auto \in BOOLEAN
  PROVE  /\ ApplyRules(m, auto).lvl \in {m.lvl} \cup {CmRequireLevel[r] : r \in m.req}
         /\ ApplyRules(m, auto).lvl \in CmLevels
         /\ m.lvl <= ApplyRules(m, auto).lvl
         /\ \A r \in m.req : CmRequireLevel[r] <= ApplyRules(m, auto).lvl
<1> DEFINE levels == {m.lvl} \cup {CmRequireLevel[r] : r \in m.req}
           l == CHOOSE l \in levels : \A k \in levels : k <= l
<1>1. levels \subseteq CmLevels /\ levels # {} /\ m.lvl \in levels
  BY LevelIsNat
<1>2. levels \in SUBSET Int /\ IsFiniteSet(levels)
  <2>1. CmLevels \in SUBSET Int /\ IsFiniteSet(CmLevels) /\ levels \in SUBSET CmLevels
    BY <1>1, CmAssumption
  <2> HIDE DEF levels
  <2> QED
    BY <2>1, FS_Subset
<1>3. \E x \in levels : \A k \in levels : k <= x
  <2> HIDE DEF levels
  <2> QED
    BY <1>1, <1>2, FiniteHasMax
<1>4. l \in levels /\ \A k \in levels : k <= l
  BY <1>3
<1>5. ApplyRules(m, auto).lvl = l
  BY DEF ApplyRules
<1> HIDE DEF l
<1> QED
  BY <1>1, <1>4, <1>5

LEMMA RulesRest ==
  ASSUME NEW m \in Marking, NEW auto \in BOOLEAN
  PROVE  LET n == ApplyRules(m, auto)
             subgroups == IF auto /\ m.subgroups # {} THEN m.subgroups \cup CmAutoSubgroups
                                                      ELSE m.subgroups
             groups == m.groups \cup Asked(subgroups)
         IN  /\ n.req = m.req /\ n.subgroups = subgroups
             /\ n.groups = IF auto /\ groups # {} THEN groups \cup CmAutoGroups ELSE groups
             /\ n = [lvl |-> n.lvl, req |-> n.req, groups |-> n.groups, subgroups |-> n.subgroups]
BY DEF ApplyRules, Asked

LEMMA RulesClose ==
  ASSUME NEW m \in Marking, NEW auto \in BOOLEAN
  PROVE  Closed(ApplyRules(m, auto), auto)
<1> DEFINE n == ApplyRules(m, auto)
           subgroups == IF auto /\ m.subgroups # {} THEN m.subgroups \cup CmAutoSubgroups
                                                    ELSE m.subgroups
           groups == m.groups \cup Asked(subgroups)
<1>1. /\ n.req = m.req /\ n.subgroups = subgroups
      /\ n.groups = IF auto /\ groups # {} THEN groups \cup CmAutoGroups ELSE groups
      /\ n = [lvl |-> n.lvl, req |-> n.req, groups |-> n.groups, subgroups |-> n.subgroups]
  BY RulesRest
<1>2. n.lvl \in CmLevels /\ \A r \in m.req : CmRequireLevel[r] <= n.lvl
  BY RulesLevel
<1> HIDE DEF n
<1>3. subgroups \subseteq CmSubgroups /\ m.req \subseteq CmRequired /\ m.groups \subseteq CmGroups
  BY CmAssumption DEF Marking
<1>4. Asked(subgroups) \subseteq CmGroups
  BY <1>3, CmAssumption DEF Asked
<1>5. \A s \in subgroups : CmRequireGroup[s] \subseteq Asked(subgroups)
  BY DEF Asked
<1> HIDE DEF subgroups
<1>6. n.groups \subseteq CmGroups /\ groups \subseteq n.groups
  BY <1>1, <1>3, <1>4, CmAssumption
<1>7. n \in Marking
  <2>1. /\ n.lvl \in CmLevels /\ n.req \in SUBSET CmRequired
        /\ n.groups \in SUBSET CmGroups /\ n.subgroups \in SUBSET CmSubgroups
    BY <1>1, <1>2, <1>3, <1>6
  <2> HIDE DEF groups
  <2> QED
    BY <1>1, <2>1 DEF Marking
<1>8. \A s \in n.subgroups : CmRequireGroup[s] \subseteq n.groups
  BY <1>1, <1>5, <1>6
<1>9. auto /\ n.groups # {} => CmAutoGroups \subseteq n.groups
  BY <1>1
<1>10. auto /\ n.subgroups # {} => CmAutoSubgroups \subseteq n.subgroups
  BY <1>1 DEF subgroups
<1> QED
  BY <1>1, <1>2, <1>7, <1>8, <1>9, <1>10 DEF Closed, n

LEMMA ClosedWeaker ==
  ASSUME NEW m, Closed(m, TRUE)
  PROVE  Closed(m, FALSE)
BY DEF Closed

LEMMA RulesClosed ==
  ASSUME NEW m, NEW auto \in BOOLEAN, Closed(m, auto)
  PROVE  ApplyRules(m, auto) = m
<1> DEFINE n == ApplyRules(m, auto)
           subgroups == IF auto /\ m.subgroups # {} THEN m.subgroups \cup CmAutoSubgroups
                                                    ELSE m.subgroups
           groups == m.groups \cup Asked(subgroups)
<1>0. m \in Marking
  BY DEF Closed
<1>1. /\ n.req = m.req /\ n.subgroups = subgroups
      /\ n.groups = IF auto /\ groups # {} THEN groups \cup CmAutoGroups ELSE groups
      /\ n = [lvl |-> n.lvl, req |-> n.req, groups |-> n.groups, subgroups |-> n.subgroups]
  BY <1>0, RulesRest
<1>2. /\ n.lvl \in {m.lvl} \cup {CmRequireLevel[r] : r \in m.req}
      /\ m.lvl <= n.lvl
  BY <1>0, RulesLevel
<1> HIDE DEF n
<1>3. n.lvl = m.lvl
  <2>1. CASE n.lvl = m.lvl
    BY <2>1
  <2>2. ASSUME NEW r \in m.req, n.lvl = CmRequireLevel[r] PROVE n.lvl = m.lvl
    <3>1. n.lvl <= m.lvl /\ n.lvl \in Nat /\ m.lvl \in Nat
      BY <1>0, <2>2, LevelIsNat DEF Closed
    <3> QED
      BY <1>2, <3>1
  <2> QED
    BY <1>2, <2>1, <2>2
<1>4. subgroups = m.subgroups
  BY DEF Closed
<1> HIDE DEF subgroups
<1>5. Asked(m.subgroups) \subseteq m.groups
  BY DEF Asked, Closed
<1>6. groups = m.groups
  BY <1>4, <1>5
<1> HIDE DEF groups
<1>7. n.groups = m.groups
  BY <1>1, <1>6 DEF Closed
<1>8. m = [lvl |-> m.lvl, req |-> m.req, groups |-> m.groups, subgroups |-> m.subgroups]
  BY <1>0 DEF Marking
<1> QED
  BY <1>1, <1>3, <1>4, <1>7, <1>8 DEF n

LEMMA SettledIsClosed ==
  ASSUME NEW m \in Marking, NEW auto \in BOOLEAN, Settled(m, auto)
  PROVE  Closed(m, auto)
BY RulesClose DEF Settled

\* What is closed is not changed, whatever the cache has, and what is changed
\* stays a marking.
LEMMA NormalizeClosed ==
  ASSUME NEW m, NEW auto \in BOOLEAN, Closed(m, auto)
  PROVE  Normalize(m, auto) = m
BY RulesClosed DEF Normalize

LEMMA NormalizeTyped ==
  ASSUME NEW m \in Marking, NEW auto \in BOOLEAN
  PROVE  Normalize(m, auto) \in Marking
BY RulesClose DEF Normalize, Closed

\* Who may see what, once both are normalised.
Sees(u, m) ==
  /\ u.lvl >= m.lvl
  /\ m.req \subseteq u.req
  /\ CanSeeGroups(u.groups, m.groups)
  /\ CanSeeGroups(u.subgroups, m.subgroups)

LEMMA AccessSees ==
  ASSUME NEW u, NEW m, Closed(m, FALSE)
  PROVE  IsAccessible(u, m) <=> Sees(Normalize(u, FALSE), m)
<1>1. Normalize(m, FALSE) = m
  BY NormalizeClosed
<1> QED
  BY <1>1 DEF IsAccessible, Sees

\* A group required by a subgroup of one is none of the groups of the other,
\* which has groups and no subgroups: it takes its place among the groups of the
\* maximum.
RequiredGroupsIntrude(a, b) ==
  \/ a.groups # {} /\ a.subgroups = {} /\ ~ (Asked(b.subgroups) \subseteq a.groups)
  \/ b.groups # {} /\ b.subgroups = {} /\ ~ (Asked(a.subgroups) \subseteq b.groups)

LEMMA MaxOfClosed ==
  ASSUME NEW a, NEW b, Closed(a, TRUE), Closed(b, TRUE), ~ MaxInvalid(a, b)
  PROVE  LET m == MaxClassification(a, b)
             M == MaxGroups(a.subgroups, b.subgroups)
             G == MaxGroups(a.groups, b.groups)
         IN  /\ Closed(m, TRUE)
             /\ a.lvl <= m.lvl /\ b.lvl <= m.lvl
             /\ m.req = a.req \cup b.req
             /\ m.subgroups = M
             /\ m.groups \subseteq G \cup Asked(M) \cup CmAutoGroups
             /\ G \subseteq m.groups
             /\ ~ NoIntersection(a.groups, b.groups)
             /\ ~ NoIntersection(a.subgroups, b.subgroups)
<1> DEFINE M == MaxGroups(a.subgroups, b.subgroups)
           G == MaxGroups(a.groups, b.groups)
           raw == [lvl |-> Higher(a.lvl, b.lvl), req |-> a.req \cup b.req,
                   groups |-> G, subgroups |-> M]
           m == MaxClassification(a, b)
<1>1. Normalize(a, TRUE) = a /\ Normalize(b, TRUE) = b
  BY NormalizeClosed
<1>2. m = ApplyRules(raw, TRUE)
  BY <1>1 DEF MaxClassification
<1>3. ~ NoIntersection(a.groups, b.groups) /\ ~ NoIntersection(a.subgroups, b.subgroups)
  BY <1>1 DEF MaxInvalid
<1>4. a \in Marking /\ b \in Marking
  BY DEF Closed
<1>5. Higher(a.lvl, b.lvl) \in CmLevels /\ a.lvl <= Higher(a.lvl, b.lvl)
      /\ b.lvl <= Higher(a.lvl, b.lvl)
  BY <1>4, LevelIsNat DEF Higher
<1>6. raw \in Marking
  BY <1>4, <1>5 DEF Marking, MaxGroups
<1>7. raw.lvl = Higher(a.lvl, b.lvl) /\ raw.req = a.req \cup b.req /\ raw.groups = G
      /\ raw.subgroups = M
  OBVIOUS
<1> HIDE DEF raw, G, M
<1>8. Closed(m, TRUE)
  BY <1>2, <1>6, RulesClose
<1>9. raw.lvl <= m.lvl /\ m.lvl \in Nat
  BY <1>2, <1>6, <1>8, RulesLevel, LevelIsNat DEF Closed
<1>10. a.lvl <= m.lvl /\ b.lvl <= m.lvl
  BY <1>4, <1>5, <1>7, <1>9, LevelIsNat
<1>11. M # {} => CmAutoSubgroups \subseteq M
  BY DEF Closed, M, MaxGroups
<1>12. m.req = raw.req /\ m.subgroups = M
       /\ m.groups \subseteq G \cup Asked(M) \cup CmAutoGroups /\ G \subseteq m.groups
  <2> DEFINE subgroups == IF TRUE /\ raw.subgroups # {} THEN raw.subgroups \cup CmAutoSubgroups
                                                        ELSE raw.subgroups
             groups == raw.groups \cup Asked(subgroups)
  <2>0. /\ m.req = raw.req /\ m.subgroups = subgroups
        /\ m.groups = IF TRUE /\ groups # {} THEN groups \cup CmAutoGroups ELSE groups
    BY <1>2, <1>6, RulesRest
  <2>1. /\ m.req = raw.req
        /\ m.subgroups = IF M # {} THEN M \cup CmAutoSubgroups ELSE M
        /\ m.groups \subseteq G \cup Asked(m.subgroups) \cup CmAutoGroups
        /\ G \subseteq m.groups
    BY <1>7, <2>0
  <2>2. m.subgroups = M
    BY <1>11, <2>1
  <2> QED
    BY <2>1, <2>2
<1> QED
  BY <1>3, <1>7, <1>8, <1>10, <1>12 DEF G, M

LEMMA MaxSeesOne ==
  ASSUME NEW a, NEW b, NEW m, NEW u \in Marking,
         Closed(a, TRUE), Closed(b, TRUE), Closed(m, TRUE),
         a.lvl <= m.lvl, a.req \subseteq m.req,
         m.subgroups = MaxGroups(a.subgroups, b.subgroups),
         MaxGroups(a.groups, b.groups) \subseteq m.groups,
         m.groups \subseteq MaxGroups(a.groups, b.groups) \cup Asked(m.subgroups) \cup CmAutoGroups,
         ~ NoIntersection(a.groups, b.groups), ~ NoIntersection(a.subgroups, b.subgroups),
         a.groups # {} /\ a.subgroups = {} => Asked(b.subgroups) \subseteq a.groups,
         Sees(u, m)
  PROVE  Sees(u, a)
<1>1. /\ u.lvl >= m.lvl /\ m.req \subseteq u.req
      /\ CanSeeGroups(u.groups, m.groups) /\ CanSeeGroups(u.subgroups, m.subgroups)
  BY DEF Sees
<1>2. u.lvl >= a.lvl
  <2>1. u.lvl \in Nat /\ m.lvl \in Nat /\ a.lvl \in Nat
    BY LevelIsNat DEF Closed
  <2> QED
    BY <1>1, <2>1
<1>3. a.subgroups # {} => m.subgroups # {} /\ m.subgroups \subseteq a.subgroups
  BY DEF MaxGroups, NoIntersection
<1>4. CanSeeGroups(u.subgroups, a.subgroups)
  BY <1>1, <1>3 DEF CanSeeGroups
<1>5. a.groups # {} => m.groups # {} /\ m.groups \subseteq a.groups
  <2> SUFFICES ASSUME a.groups # {} PROVE m.groups # {} /\ m.groups \subseteq a.groups
    OBVIOUS
  <2>1. MaxGroups(a.groups, b.groups) # {} /\ MaxGroups(a.groups, b.groups) \subseteq a.groups
    BY DEF MaxGroups, NoIntersection
  <2>2. Asked(a.subgroups) \subseteq a.groups /\ CmAutoGroups \subseteq a.groups
    BY DEF Asked, Closed
  <2>3. Asked(m.subgroups) \subseteq a.groups
    <3>1. CASE a.subgroups # {}
      <4>1. Asked(m.subgroups) \subseteq Asked(a.subgroups)
        BY <1>3, <3>1 DEF Asked
      <4> QED
        BY <2>2, <4>1
    <3>2. CASE a.subgroups = {}
      <4>1. m.subgroups = b.subgroups
        BY <3>2 DEF MaxGroups
      <4> QED
        BY <3>2, <4>1
    <3> QED
      BY <3>1, <3>2
  <2> QED
    BY <2>1, <2>2, <2>3
<1>6. CanSeeGroups(u.groups, a.groups)
  BY <1>1, <1>5 DEF CanSeeGroups
<1> QED
  <2>1. a.req \subseteq u.req
    BY <1>1
  <2> QED
    BY <1>2, <1>4, <1>6, <2>1 DEF Sees

\* Who sees the maximum sees both.
LEMMA MaxSeesBoth ==
  ASSUME NEW a, NEW b, NEW u \in Marking, Closed(a, TRUE), Closed(b, TRUE),
         ~ MaxInvalid(a, b), ~ RequiredGroupsIntrude(a, b),
         IsAccessible(u, MaxClassification(a, b))
  PROVE  IsAccessible(u, a) /\ IsAccessible(u, b)
<1> DEFINE m == MaxClassification(a, b)
<1>1. /\ Closed(m, TRUE) /\ a.lvl <= m.lvl /\ b.lvl <= m.lvl /\ m.req = a.req \cup b.req
      /\ m.subgroups = MaxGroups(a.subgroups, b.subgroups)
      /\ m.groups \subseteq MaxGroups(a.groups, b.groups)
                              \cup Asked(MaxGroups(a.subgroups, b.subgroups)) \cup CmAutoGroups
      /\ MaxGroups(a.groups, b.groups) \subseteq m.groups
      /\ ~ NoIntersection(a.groups, b.groups)
      /\ ~ NoIntersection(a.subgroups, b.subgroups)
  BY MaxOfClosed
<1>2. /\ a.groups # {} /\ a.subgroups = {} => Asked(b.subgroups) \subseteq a.groups
      /\ b.groups # {} /\ b.subgroups = {} => Asked(a.subgroups) \subseteq b.groups
  BY DEF RequiredGroupsIntrude
<1>3. /\ MaxGroups(a.groups, b.groups) = MaxGroups(b.groups, a.groups)
      /\ MaxGroups(a.subgroups, b.subgroups) = MaxGroups(b.subgroups, a.subgroups)
      /\ ~ NoIntersection(b.groups, a.groups) /\ ~ NoIntersection(b.subgroups, a.subgroups)
  BY <1>1 DEF MaxGroups, NoIntersection
<1> HIDE DEF m
<1>4. IsAccessible(u, m)
  BY DEF m
<1> DEFINE v == Normalize(u, FALSE)
<1>5. v \in Marking /\ Sees(v, m)
  BY <1>1, <1>4, NormalizeTyped, AccessSees, ClosedWeaker
<1>6. (IsAccessible(u, a) <=> Sees(v, a)) /\ (IsAccessible(u, b) <=> Sees(v, b))
  BY AccessSees, ClosedWeaker
<1> HIDE DEF v
<1>7. a.req \subseteq m.req /\ b.req \subseteq m.req
  BY <1>1
<1>8. Sees(v, a)
  BY <1>1, <1>2, <1>5, <1>7, MaxSeesOne
<1>9. Sees(v, b)
  BY <1>1, <1>2, <1>3, <1>5, <1>7, MaxSeesOne
<1> QED
  BY <1>6, <1>8, <1>9

\* A normalised level is no higher than one that covers it and the tokens.
LEMMA RulesLevelBound ==
  ASSUME NEW m \in Marking, NEW auto \in BOOLEAN, NEW l \in Nat,
         m.lvl <= l, \A r \in m.req : CmRequireLevel[r] <= l
  PROVE  ApplyRules(m, auto).lvl <= l
BY RulesLevel

LEMMA MinOfClosed ==
  ASSUME NEW a, NEW b, Closed(a, TRUE), Closed(b, TRUE)
  PROVE  LET m == MinClassification(a, b)
         IN  /\ Closed(m, TRUE)
             /\ m.lvl <= a.lvl /\ m.lvl <= b.lvl
             /\ m.req = a.req \cap b.req
             /\ m.subgroups = MinGroups(a.subgroups, b.subgroups)
             /\ ~ RequiredGroupsAppear(a, b) =>
                  IF a.groups = {} \/ b.groups = {} THEN m.groups = {}
                  ELSE a.groups \cup b.groups \subseteq m.groups
<1> DEFINE M == MinGroups(a.subgroups, b.subgroups)
           G == MinGroups(a.groups, b.groups)
           raw == [lvl |-> Lower(a.lvl, b.lvl), req |-> a.req \cap b.req,
                   groups |-> G, subgroups |-> M]
           m == MinClassification(a, b)
<1>1. Normalize(a, TRUE) = a /\ Normalize(b, TRUE) = b
  BY NormalizeClosed
<1>2. m = ApplyRules(raw, TRUE)
  BY <1>1 DEF MinClassification
<1>3. RequiredGroupsAppear(a, b) <=>
        /\ a.groups = {} \/ b.groups = {}
        /\ \E s \in M : CmRequireGroup[s] # {}
  BY <1>1 DEF RequiredGroupsAppear
<1>4. a \in Marking /\ b \in Marking
  BY DEF Closed
<1>5. /\ Lower(a.lvl, b.lvl) \in CmLevels /\ Lower(a.lvl, b.lvl) <= a.lvl
      /\ Lower(a.lvl, b.lvl) <= b.lvl
  BY <1>4, LevelIsNat DEF Lower
<1>6. raw \in Marking
  BY <1>4, <1>5 DEF Marking, MinGroups
<1>7. raw.lvl = Lower(a.lvl, b.lvl) /\ raw.req = a.req \cap b.req /\ raw.groups = G
      /\ raw.subgroups = M
  OBVIOUS
<1>8. /\ M # {} => CmAutoSubgroups \subseteq M
      /\ G = {} <=> a.groups = {} \/ b.groups = {}
      /\ G # {} => a.groups \cup b.groups \subseteq G
  BY DEF Closed, M, G, MinGroups
<1> HIDE DEF raw, G, M, m
<1>9. Closed(m, TRUE)
  BY <1>2, <1>6, RulesClose
<1>10. m.lvl <= a.lvl /\ m.lvl <= b.lvl
  <2>1. \A r \in raw.req : CmRequireLevel[r] <= a.lvl /\ CmRequireLevel[r] <= b.lvl
    BY <1>7 DEF Closed
  <2> QED
    BY <1>2, <1>4, <1>5, <1>6, <1>7, <2>1, RulesLevelBound, LevelIsNat
<1>11. m.req = raw.req /\ m.subgroups = M
       /\ (G # {} => G \subseteq m.groups) /\ (G \cup Asked(M) = {} => m.groups = {})
  <2> DEFINE subgroups == IF TRUE /\ raw.subgroups # {} THEN raw.subgroups \cup CmAutoSubgroups
                                                        ELSE raw.subgroups
             groups == raw.groups \cup Asked(subgroups)
  <2>1. /\ m.req = raw.req /\ m.subgroups = subgroups
        /\ m.groups = IF TRUE /\ groups # {} THEN groups \cup CmAutoGroups ELSE groups
    BY <1>2, <1>6, RulesRest
  <2>2. subgroups = M
    BY <1>7, <1>8
  <2> HIDE DEF subgroups
  <2> QED
    BY <1>7, <2>1, <2>2
<1>12. ~ RequiredGroupsAppear(a, b) =>
         IF a.groups = {} \/ b.groups = {} THEN m.groups = {}
         ELSE a.groups \cup b.groups \subseteq m.groups
  <2>1. CASE G # {}
    BY <1>8, <1>11, <2>1
  <2>2. CASE G = {}
    <3>1. ~ RequiredGroupsAppear(a, b) => Asked(M) = {}
      BY <1>3, <1>8, <2>2 DEF Asked
    <3> QED
      BY <1>8, <1>11, <2>2, <3>1
  <2> QED
    BY <2>1, <2>2
<1> QED
  BY <1>7, <1>9, <1>10, <1>11, <1>12 DEF M, m

\* Who sees one of two classifications sees their minimum.
LEMMA MinIsSeen ==
  ASSUME NEW a, NEW b, NEW u \in Marking, Closed(a, TRUE), Closed(b, TRUE),
         ~ RequiredGroupsAppear(a, b), IsAccessible(u, a) \/ IsAccessible(u, b)
  PROVE  IsAccessible(u, MinClassification(a, b))
<1> DEFINE m == MinClassification(a, b)
<1>1. /\ Closed(m, TRUE) /\ m.lvl <= a.lvl /\ m.lvl <= b.lvl /\ m.req = a.req \cap b.req
      /\ m.subgroups = MinGroups(a.subgroups, b.subgroups)
      /\ IF a.groups = {} \/ b.groups = {} THEN m.groups = {}
         ELSE a.groups \cup b.groups \subseteq m.groups
  BY MinOfClosed
<1> HIDE DEF m
<1>2. PICK x \in {a, b} : IsAccessible(u, x)
  OBVIOUS
<1>3. Closed(x, FALSE) /\ Closed(m, FALSE)
  BY <1>1, ClosedWeaker
<1> DEFINE v == Normalize(u, FALSE)
<1>0. v \in Marking /\ Sees(v, x) /\ (IsAccessible(u, m) <=> Sees(v, m))
  BY <1>2, <1>3, AccessSees, NormalizeTyped
<1> HIDE DEF v
<1>4. /\ v.lvl >= x.lvl /\ x.req \subseteq v.req
      /\ CanSeeGroups(v.groups, x.groups) /\ CanSeeGroups(v.subgroups, x.subgroups)
  BY <1>0 DEF Sees
<1>5. v.lvl >= m.lvl
  <2>1. v.lvl \in Nat /\ m.lvl \in Nat /\ x.lvl \in Nat
    BY <1>0, <1>1, <1>3, LevelIsNat DEF Closed
  <2> QED
    BY <1>1, <1>4, <2>1
<1>6. CanSeeGroups(v.subgroups, m.subgroups)
  BY <1>1, <1>4 DEF CanSeeGroups, MinGroups
<1>7. CanSeeGroups(v.groups, m.groups)
  <2>1. m.groups # {} => x.groups # {} /\ x.groups \subseteq m.groups
    BY <1>1
  <2> QED
    BY <1>4, <2>1 DEF CanSeeGroups
<1> QED
  <2>1. m.req \subseteq v.req
    BY <1>1, <1>4
  <2>2. Sees(v, m)
    BY <1>5, <1>6, <1>7, <2>1 DEF Sees
  <2> QED
    BY <1>0, <2>2 DEF m

LEMMA UserOfClosed ==
  ASSUME NEW raw \in Marking
  PROVE  LET u == ApplyRules(raw, FALSE)
         IN  /\ Closed(u, FALSE)
             /\ u.req = raw.req /\ u.subgroups = raw.subgroups
             /\ u.groups = raw.groups \cup Asked(raw.subgroups)
BY RulesClose, RulesRest

\* What one of two users sees is seen by one with their classifications joined.
LEMMA BuiltUserSees ==
  ASSUME NEW c \in Marking, NEW e \in Marking, NEW d \in Marking,
         IsAccessible(c, d) \/ IsAccessible(e, d)
  PROVE  IsAccessible(BuildUser(c, e), d)
<1> DEFINE a == Normalize(c, FALSE)
           b == Normalize(e, FALSE)
           n == Normalize(d, FALSE)
           raw == [lvl |-> Higher(a.lvl, b.lvl), req |-> a.req \cup b.req,
                   groups |-> a.groups \cup b.groups, subgroups |-> a.subgroups \cup b.subgroups]
           u == BuildUser(c, e)
<1>1. u = ApplyRules(raw, FALSE)
  BY DEF BuildUser
<1>2. a \in Marking /\ b \in Marking /\ n \in Marking
  BY NormalizeTyped
<1>3. Sees(a, n) \/ Sees(b, n)
  BY DEF IsAccessible, Sees
<1> HIDE DEF a, b
<1>4. /\ Higher(a.lvl, b.lvl) \in CmLevels /\ a.lvl <= Higher(a.lvl, b.lvl)
      /\ b.lvl <= Higher(a.lvl, b.lvl)
  BY <1>2, LevelIsNat DEF Higher
<1>5. raw \in Marking
  BY <1>2, <1>4 DEF Marking
<1>6. /\ raw.lvl = Higher(a.lvl, b.lvl) /\ raw.req = a.req \cup b.req
      /\ raw.groups = a.groups \cup b.groups /\ raw.subgroups = a.subgroups \cup b.subgroups
  OBVIOUS
<1> HIDE DEF raw, u
<1>7. /\ Closed(u, FALSE) /\ u.req = a.req \cup b.req
      /\ u.subgroups = a.subgroups \cup b.subgroups /\ a.groups \cup b.groups \subseteq u.groups
  BY <1>1, <1>5, <1>6, UserOfClosed
<1>8. a.lvl <= u.lvl /\ b.lvl <= u.lvl
  <2>1. raw.lvl <= u.lvl /\ u.lvl \in Nat
    BY <1>1, <1>5, <1>7, RulesLevel, LevelIsNat DEF Closed
  <2> QED
    BY <1>2, <1>4, <1>6, <2>1, LevelIsNat
<1>9. IsAccessible(u, d) <=> Sees(u, n)
  BY <1>7, NormalizeClosed DEF IsAccessible, Sees
<1> HIDE DEF n
<1>10. PICK x \in {a, b} : Sees(x, n)
  BY <1>3
<1>11. /\ x.lvl >= n.lvl /\ n.req \subseteq x.req
       /\ CanSeeGroups(x.groups, n.groups) /\ CanSeeGroups(x.subgroups, n.subgroups)
  BY <1>10 DEF Sees
<1>12. u.lvl >= n.lvl
  <2>1. u.lvl \in Nat /\ x.lvl \in Nat /\ n.lvl \in Nat
    BY <1>2, <1>7, LevelIsNat DEF Closed
  <2> QED
    BY <1>8, <1>11, <2>1
<1>13. CanSeeGroups(u.groups, n.groups) /\ CanSeeGroups(u.subgroups, n.subgroups)
  BY <1>7, <1>11 DEF CanSeeGroups
<1>14. n.req \subseteq u.req
  BY <1>7, <1>11
<1>15. IsAccessible(u, d)
  BY <1>9, <1>12, <1>13, <1>14 DEF Sees
<1> QED
  BY <1>15 DEF u

\* What one with what two users have in common sees is seen by both.
LEMMA IntersectionSeesLess ==
  ASSUME NEW a, NEW b, NEW d \in Marking, Closed(a, FALSE), Closed(b, FALSE),
         IsAccessible(IntersectUsers(a, b), d)
  PROVE  IsAccessible(a, d) /\ IsAccessible(b, d)
<1> DEFINE raw == [lvl |-> Lower(a.lvl, b.lvl), req |-> a.req \cap b.req,
                   groups |-> a.groups \cap b.groups, subgroups |-> a.subgroups \cap b.subgroups]
           u == IntersectUsers(a, b)
           n == Normalize(d, FALSE)
<1>0. Normalize(a, FALSE) = a /\ Normalize(b, FALSE) = b
  BY NormalizeClosed
<1>1. u = ApplyRules(raw, FALSE)
  BY <1>0 DEF IntersectUsers
<1>2. a \in Marking /\ b \in Marking /\ n \in Marking
  BY NormalizeTyped DEF Closed
<1>3. /\ Lower(a.lvl, b.lvl) \in CmLevels /\ Lower(a.lvl, b.lvl) <= a.lvl
      /\ Lower(a.lvl, b.lvl) <= b.lvl
  BY <1>2, LevelIsNat DEF Lower
<1>4. raw \in Marking
  BY <1>2, <1>3 DEF Marking
<1>5. /\ raw.lvl = Lower(a.lvl, b.lvl) /\ raw.req = a.req \cap b.req
      /\ raw.groups = a.groups \cap b.groups /\ raw.subgroups = a.subgroups \cap b.subgroups
  OBVIOUS
<1> HIDE DEF raw
<1>6. IsAccessible(u, d)
  OBVIOUS
<1> HIDE DEF u
<1>7. /\ Closed(u, FALSE) /\ u.req = a.req \cap b.req
      /\ u.subgroups = a.subgroups \cap b.subgroups
      /\ u.groups \subseteq a.groups /\ u.groups \subseteq b.groups
  <2>1. Asked(a.subgroups \cap b.subgroups) \subseteq a.groups \cap b.groups
    BY DEF Asked, Closed
  <2> QED
    BY <1>1, <1>4, <1>5, <2>1, UserOfClosed
<1>8. u.lvl <= a.lvl /\ u.lvl <= b.lvl
  <2>1. \A r \in raw.req : CmRequireLevel[r] <= a.lvl /\ CmRequireLevel[r] <= b.lvl
    BY <1>5 DEF Closed
  <2> QED
    BY <1>1, <1>2, <1>3, <1>4, <1>5, <2>1, RulesLevelBound, LevelIsNat
<1>9. \A x \in {a, b, u} : IsAccessible(x, d) <=> Sees(x, n)
  BY <1>0, <1>7, NormalizeClosed DEF IsAccessible, Sees
<1> HIDE DEF n
<1>10. /\ u.lvl >= n.lvl /\ n.req \subseteq u.req
       /\ CanSeeGroups(u.groups, n.groups) /\ CanSeeGroups(u.subgroups, n.subgroups)
  BY <1>6, <1>9 DEF Sees
<1>11. ASSUME NEW x \in {a, b} PROVE IsAccessible(x, d)
  <2>1. x.lvl >= n.lvl
    <3>1. u.lvl \in Nat /\ x.lvl \in Nat /\ n.lvl \in Nat
      BY <1>2, <1>7, LevelIsNat DEF Closed
    <3> QED
      BY <1>8, <1>10, <3>1
  <2>2. n.req \subseteq x.req
    BY <1>7, <1>10
  <2>3. CanSeeGroups(x.groups, n.groups) /\ CanSeeGroups(x.subgroups, n.subgroups)
    BY <1>7, <1>10 DEF CanSeeGroups
  <2>4. Sees(x, n)
    BY <2>1, <2>2, <2>3 DEF Sees
  <2> QED
    BY <1>9, <2>4
<1> QED
  BY <1>11

----------------------------------------------------------------------------
LEMMA CmTypesInit == CmInit => CmTypeOK
<1>1. \E l \in CmLevels : \A k \in CmLevels : l <= k
  BY CmAssumption, NatHasMin
<1>2. Lowest.lvl \in CmLevels
  BY <1>1 DEF Lowest
<1>3. Lowest \in Marking
  BY <1>2 DEF Lowest, Marking
<1> QED
  BY <1>3 DEF CmInit, CmTypeOK

LEMMA CmTypesStep == CmTypeOK /\ [CmNext]_cmVars => CmTypeOK'
<1> SUFFICES ASSUME CmTypeOK, [CmNext]_cmVars PROVE CmTypeOK'
  OBVIOUS
<1>1. ASSUME NEW m \in CmAsked, NEW auto \in BOOLEAN, NormalizeText(m, auto) PROVE CmTypeOK'
  <2>1. ApplyRules(m, auto) \in Marking
    BY CmAskedAssumption, RulesClose DEF Closed
  <2> QED
    BY <1>1, <2>1 DEF NormalizeText, CmTypeOK
<1>2. ASSUME NEW a \in Marking, NEW b \in Marking, Consider(a, b)
      PROVE  CmTypeOK'
  BY <1>2 DEF Consider, CmTypeOK
<1>3. CASE UNCHANGED cmVars
  BY <1>3 DEF cmVars, CmTypeOK
<1> QED
  BY <1>1, <1>2, <1>3 DEF CmNext

\* Which groups subgroups require is left to a definition.  Where they are among
\* those that are selected automatically, none of them intrudes.
RequiredGroupsAuto == \A s \in CmSubgroups : CmRequireGroup[s] \subseteq CmAutoGroups

LEMMA AutoNeverIntrudes ==
  ASSUME RequiredGroupsAuto, NEW a, NEW b, Closed(a, TRUE), Closed(b, TRUE)
  PROVE  ~ RequiredGroupsIntrude(a, b)
<1>1. a.subgroups \subseteq CmSubgroups /\ b.subgroups \subseteq CmSubgroups
  BY DEF Closed, Marking
<1>2. Asked(a.subgroups) \subseteq CmAutoGroups /\ Asked(b.subgroups) \subseteq CmAutoGroups
  BY <1>1 DEF RequiredGroupsAuto, Asked
<1> QED
  BY <1>2 DEF RequiredGroupsIntrude, Closed

\* What ReadersAgree says, for the maximum of two of which neither has groups
\* that the other's subgroups intrude upon.
ReadersAgreeButIntrusion == RequiredGroupsIntrude(cmFirst, cmSecond) \/ ReadersAgree

LEMMA TypedAgree ==
  ASSUME CmTypeOK,
         Settled(cmFirst, TRUE) /\ Settled(cmSecond, TRUE)
           => ~ RequiredGroupsIntrude(cmFirst, cmSecond)
  PROVE  ReadersAgree
<1> DEFINE a == cmFirst  b == cmSecond
<1> SUFFICES ASSUME NEW u \in Marking
             PROVE  /\ Settled(a, TRUE) /\ Settled(b, TRUE) =>
                         /\ ~ MaxInvalid(a, b) /\ IsAccessible(u, MaxClassification(a, b))
                              => IsAccessible(u, a) /\ IsAccessible(u, b)
                         /\ ~ RequiredGroupsAppear(a, b) /\ (IsAccessible(u, a) \/ IsAccessible(u, b))
                              => IsAccessible(u, MinClassification(a, b))
                    /\ IsAccessible(a, b) \/ IsAccessible(u, b) => IsAccessible(BuildUser(a, u), b)
                    /\ Settled(a, FALSE) /\ Settled(u, FALSE) /\ IsAccessible(IntersectUsers(a, u), b)
                         => IsAccessible(a, b) /\ IsAccessible(u, b)
  BY DEF ReadersAgree
<1>1. a \in Marking /\ b \in Marking /\ u \in Marking
  BY DEF CmTypeOK
<1>2. ASSUME Settled(a, TRUE), Settled(b, TRUE)
      PROVE  /\ ~ MaxInvalid(a, b) /\ IsAccessible(u, MaxClassification(a, b))
                  => IsAccessible(u, a) /\ IsAccessible(u, b)
             /\ ~ RequiredGroupsAppear(a, b) /\ (IsAccessible(u, a) \/ IsAccessible(u, b))
                  => IsAccessible(u, MinClassification(a, b))
  <2>1. Closed(a, TRUE) /\ Closed(b, TRUE)
    BY <1>1, <1>2, SettledIsClosed
  <2>2. ~ RequiredGroupsIntrude(a, b)
    BY <1>2
  <2> QED
    BY <1>1, <2>1, <2>2, MaxSeesBoth, MinIsSeen
<1>3. IsAccessible(a, b) \/ IsAccessible(u, b) => IsAccessible(BuildUser(a, u), b)
  BY <1>1, BuiltUserSees
<1>4. ASSUME Settled(a, FALSE), Settled(u, FALSE), IsAccessible(IntersectUsers(a, u), b)
      PROVE  IsAccessible(a, b) /\ IsAccessible(u, b)
  <2>1. Closed(a, FALSE) /\ Closed(u, FALSE)
    BY <1>1, <1>4, SettledIsClosed
  <2> QED
    BY <1>1, <1>4, <2>1, IntersectionSeesLess
<1> QED
  BY <1>2, <1>3, <1>4

\* Combining classifications keeps its promises, whatever the cache has got, for
\* every definition whose subgroups require only groups that are selected
\* automatically (classification.py).
THEOREM ReadersAlwaysAgree ==
  ASSUME RequiredGroupsAuto
  PROVE  CmSpec => []ReadersAgree
<1>1. CmTypeOK => ReadersAgree
  <2> SUFFICES ASSUME CmTypeOK PROVE ReadersAgree
    OBVIOUS
  <2>1. ASSUME Settled(cmFirst, TRUE), Settled(cmSecond, TRUE)
        PROVE  ~ RequiredGroupsIntrude(cmFirst, cmSecond)
    BY <2>1, SettledIsClosed, AutoNeverIntrudes DEF CmTypeOK
  <2> QED
    BY <2>1, TypedAgree
<1> QED
  BY <1>1, CmTypesInit, CmTypesStep, PTL DEF CmSpec

\* And for every definition at all, for two classifications upon neither of
\* which the groups that the other's subgroups require intrude.
THEOREM ReadersAgreeElse == CmSpec => []ReadersAgreeButIntrusion
<1>1. CmTypeOK => ReadersAgreeButIntrusion
  BY TypedAgree DEF ReadersAgreeButIntrusion
<1> QED
  BY <1>1, CmTypesInit, CmTypesStep, PTL DEF CmSpec
----------------------------------------------------------------------------
\* Reading page by page.

\* The tie breaker makes the order of the hits total.
LEMMA SortsTotally ==
  /\ \A d \in PgDocs : ~SortsBefore(d, d)
  /\ \A d, e \in PgDocs : d # e => SortsBefore(d, e) \/ SortsBefore(e, d)
  /\ \A d, e, f \in PgDocs : SortsBefore(d, e) /\ SortsBefore(e, f) => SortsBefore(d, f)
<1>1. \A d \in PgDocs : d \in Nat /\ PgKey[d] \in Nat
  BY PgAssumption
<1>2. \A d \in PgDocs : ~SortsBefore(d, d)
  BY <1>1 DEF SortsBefore
<1>3. \A d, e \in PgDocs : d # e => SortsBefore(d, e) \/ SortsBefore(e, d)
  BY <1>1 DEF SortsBefore
<1>4. \A d, e, f \in PgDocs : SortsBefore(d, e) /\ SortsBefore(e, f) => SortsBefore(d, f)
  BY <1>1 DEF SortsBefore
<1> QED
  BY <1>2, <1>3, <1>4

\* How many of the documents D come before d.
Rank(D, d) == Cardinality({e \in D : SortsBefore(e, d)})

LEMMA Ranks ==
  ASSUME NEW D \in SUBSET PgDocs, IsFiniteSet(D)
  PROVE  /\ Cardinality(D) \in Nat
         /\ \A d \in D : Rank(D, d) \in 0 .. Cardinality(D) - 1
         /\ \A d, e \in D : SortsBefore(d, e) => Rank(D, d) < Rank(D, e)
         /\ \A d, e \in D : Rank(D, d) = Rank(D, e) => d = e
         /\ \A k \in 0 .. Cardinality(D) - 1 : \E d \in D : Rank(D, d) = k
<1> DEFINE Before(d) == {e \in D : SortsBefore(e, d)}
           n == Cardinality(D)
<1>1. n \in Nat /\ \A d \in D : IsFiniteSet(Before(d)) /\ Cardinality(Before(d)) \in Nat
  BY FS_Subset, FS_CardinalityType
<1>2. ASSUME NEW d \in D PROVE Rank(D, d) \in 0 .. n - 1
  <2>1. Before(d) \subseteq D \ {d}
    BY SortsTotally
  <2>2. IsFiniteSet(D \ {d}) /\ Cardinality(D \ {d}) = n - 1
    BY FS_RemoveElement
  <2>3. Cardinality(Before(d)) <= n - 1
    BY <2>1, <2>2, FS_Subset
  <2>4. Cardinality(Before(d)) \in Nat /\ Rank(D, d) = Cardinality(Before(d))
    BY <1>1 DEF Rank
  <2> HIDE DEF Before
  <2> QED
    BY <1>1, <2>3, <2>4
<1>3. ASSUME NEW d \in D, NEW e \in D, SortsBefore(d, e) PROVE Rank(D, d) < Rank(D, e)
  <2>1. Before(d) \subseteq Before(e) /\ d \in Before(e) /\ d \notin Before(d)
    BY <1>3, SortsTotally
  <2>2. Cardinality(Before(d)) <= Cardinality(Before(e)) /\ Cardinality(Before(d)) # Cardinality(Before(e))
    BY <1>1, <2>1, FS_Subset
  <2> QED
    BY <1>1, <2>2 DEF Rank
<1>4. ASSUME NEW d \in D, NEW e \in D, Rank(D, d) = Rank(D, e) PROVE d = e
  <2>1. Rank(D, d) \in Nat /\ Rank(D, e) \in Nat
    BY <1>2
  <2>2. ~SortsBefore(d, e) /\ ~SortsBefore(e, d)
    BY <1>3, <1>4, <2>1
  <2> QED
    BY <2>2, SortsTotally
<1>5. \A k \in 0 .. n - 1 : \E d \in D : Rank(D, d) = k
  <2> SUFFICES ASSUME NEW k \in 0 .. n - 1, \A d \in D : Rank(D, d) # k PROVE FALSE
    OBVIOUS
  <2> DEFINE r == [d \in D |-> Rank(D, d)]
             T == (0 .. n - 1) \ {k}
  <2>1. r \in [D -> T]
    BY <1>2
  <2>2. IsFiniteSet(0 .. n - 1) /\ Cardinality(0 .. n - 1) = n
    BY <1>1, FS_Interval
  <2>3. IsFiniteSet(T) /\ Cardinality(T) = n - 1
    BY <2>2, FS_RemoveElement
  <2>4. Cardinality(T) < Cardinality(D)
    BY <1>1, <2>3
  <2>5. \E d, e \in D : d # e /\ r[d] = r[e]
    <3> HIDE DEF r, T
    <3> QED
      BY <2>1, <2>3, <2>4, FS_PigeonHole
  <2> QED
    BY <1>4, <2>5
<1> QED
  BY <1>1, <1>2, <1>3, <1>4, <1>5

\* There is such a page, whatever the documents and its size.
LEMMA PageExists ==
  ASSUME NEW D \in SUBSET PgDocs, IsFiniteSet(D), NEW size \in 0 .. Cardinality(D)
  PROVE  \E page \in [1 .. size -> D] : FirstHits(D, page)
<1> DEFINE page == [i \in 1 .. size |-> CHOOSE d \in D : Rank(D, d) = i - 1]
<1>1. /\ Cardinality(D) \in Nat
      /\ \A d \in D : Rank(D, d) \in 0 .. Cardinality(D) - 1
      /\ \A d, e \in D : SortsBefore(d, e) => Rank(D, d) < Rank(D, e)
      /\ \A d, e \in D : Rank(D, d) = Rank(D, e) => d = e
      /\ \A k \in 0 .. Cardinality(D) - 1 : \E d \in D : Rank(D, d) = k
  BY Ranks
<1>2. \A i \in 1 .. size : page[i] \in D /\ Rank(D, page[i]) = i - 1
  <2> SUFFICES ASSUME NEW i \in 1 .. size
               PROVE  page[i] \in D /\ Rank(D, page[i]) = i - 1
    OBVIOUS
  <2>1. i - 1 \in 0 .. Cardinality(D) - 1
    BY <1>1
  <2>2. \E d \in D : Rank(D, d) = i - 1
    BY <1>1, <2>1
  <2> QED
    BY <2>2
<1>3. page \in [1 .. size -> D] /\ DOMAIN page = 1 .. size
  BY <1>2
<1> HIDE DEF page
<1>4. IsInjective(page)
  <2>1. \A i, j \in 1 .. size : page[i] = page[j] => i = j
    <3> SUFFICES ASSUME NEW i \in 1 .. size, NEW j \in 1 .. size, page[i] = page[j] PROVE i = j
      OBVIOUS
    <3>1. i - 1 = j - 1
      BY <1>2
    <3> QED
      BY <3>1
  <2> QED
    BY <1>3, <2>1 DEF IsInjective
<1>5. ASSUME NEW i \in 1 .. size, NEW j \in 1 .. size, i < j
      PROVE  ~SortsBefore(page[j], page[i])
  <2>1. SortsBefore(page[j], page[i]) => j - 1 < i - 1
    BY <1>1, <1>2
  <2> QED
    BY <1>5, <2>1
<1>6. ASSUME NEW i \in 1 .. size, NEW d \in D \ ToSet(page)
      PROVE  ~SortsBefore(d, page[i])
  <2>1. Rank(D, d) \in Nat /\ size \in Nat
    BY <1>1
  <2>2. CASE Rank(D, d) < size
    <3>1. Rank(D, d) + 1 \in 1 .. size
      BY <2>1, <2>2
    <3>2. Rank(D, page[Rank(D, d) + 1]) = Rank(D, d)
      BY <1>2, <2>1, <3>1
    <3>3. page[Rank(D, d) + 1] = d
      BY <1>1, <1>2, <3>1, <3>2
    <3> QED
      BY <1>3, <3>1, <3>3 DEF ToSet
  <2>3. CASE ~(Rank(D, d) < size)
    <3>1. SortsBefore(d, page[i]) => Rank(D, d) < i - 1
      BY <1>1, <1>2
    <3> QED
      BY <2>1, <2>3, <3>1
  <2> QED
    BY <2>2, <2>3
<1>7. FirstHits(D, page)
  <2>1. \A i, j \in DOMAIN page : i < j => ~SortsBefore(page[j], page[i])
    BY <1>3, <1>5
  <2>2. \A i \in DOMAIN page, d \in D \ ToSet(page) : ~SortsBefore(d, page[i])
    BY <1>3, <1>6
  <2> QED
    BY <1>4, <2>1, <2>2 DEF FirstHits
<1> QED
  BY <1>3, <1>7

\* A page without repetitions has as many documents as places.
LEMMA PageCount ==
  ASSUME NEW D, NEW size \in Nat, NEW page \in [1 .. size -> D], IsInjective(page)
  PROVE  Cardinality(ToSet(page)) = size
<1>1. page \in [1 .. size -> ToSet(page)] /\ \A d \in ToSet(page) : \E i \in 1 .. size : page[i] = d
  BY DEF ToSet
<1>2. page \in Bijection(1 .. size, ToSet(page))
  BY <1>1 DEF Bijection, Injection, Surjection
<1> QED
  BY <1>2, FS_CountingElements DEF ExistsBijection

\* The size of a page of the documents D.
SizeOf(D) == IF Cardinality(D) < pgSize THEN Cardinality(D) ELSE pgSize

LEMMA PageFirst ==
  ASSUME NEW D \in SUBSET PgDocs, pgSize \in Nat
  PROVE  /\ Cardinality(D) \in Nat /\ SizeOf(D) \in 0 .. Cardinality(D)
         /\ PageOf(D) \in [1 .. SizeOf(D) -> D] /\ FirstHits(D, PageOf(D))
<1>1. IsFiniteSet(D) /\ Cardinality(D) \in Nat
  BY PgAssumption, FS_Subset, FS_CardinalityType
<1>2. SizeOf(D) \in 0 .. Cardinality(D)
  BY <1>1 DEF SizeOf
<1>3. \E page \in [1 .. SizeOf(D) -> D] : FirstHits(D, page)
  BY <1>1, <1>2, PageExists
<1>4. PageOf(D) = CHOOSE page \in [1 .. SizeOf(D) -> D] : FirstHits(D, page)
  BY DEF PageOf, SizeOf
<1>5. PageOf(D) \in [1 .. SizeOf(D) -> D] /\ FirstHits(D, PageOf(D))
  BY <1>3, <1>4
<1> QED
  BY <1>1, <1>2, <1>5

\* What was read is what does not come after the last hit.
PagesInv ==
  /\ pgIndex \subseteq PgDocs /\ pgPit \subseteq PgDocs
  /\ pgOut \in Seq(PgDocs) /\ pgAfter \subseteq pgPit
  /\ pgStep = "new" => pgAfter = {} /\ pgOut = <<>>
  /\ pgStep = "open" => pgSize \in PgRows
  /\ IsInjective(pgOut)
  /\ ToSet(pgOut) = pgPit \ HitsAfter
  /\ pgStep = "closed" => HitsAfter = {}

LEMMA PagesInit == PgInit => PagesInv
BY DEF PgInit, PagesInv, IsInjective, ToSet, HitsAfter

\* Two sequences without repetitions and without a common element, joined.
LEMMA Joined ==
  ASSUME NEW D, NEW s \in Seq(D), NEW t \in Seq(D), IsInjective(s), IsInjective(t),
         ToSet(s) \cap ToSet(t) = {}
  PROVE  s \o t \in Seq(D) /\ IsInjective(s \o t) /\ ToSet(s \o t) = ToSet(s) \cup ToSet(t)
<1> DEFINE st == s \o t
<1>1. /\ st \in Seq(D) /\ DOMAIN st = 1 .. Len(s) + Len(t)
      /\ DOMAIN s = 1 .. Len(s) /\ DOMAIN t = 1 .. Len(t)
      /\ Len(s) \in Nat /\ Len(t) \in Nat
      /\ \A i \in 1 .. Len(s) : st[i] = s[i]
      /\ \A i \in 1 .. Len(t) : st[Len(s) + i] = t[i]
  OBVIOUS
<1> HIDE DEF st
<1>2. \A i \in DOMAIN st : \/ i \in 1 .. Len(s) /\ st[i] = s[i]
                           \/ i - Len(s) \in 1 .. Len(t) /\ st[i] = t[i - Len(s)]
  <2> SUFFICES ASSUME NEW i \in DOMAIN st, i \notin 1 .. Len(s)
               PROVE  i - Len(s) \in 1 .. Len(t) /\ st[i] = t[i - Len(s)]
    BY <1>1
  <2>1. i - Len(s) \in 1 .. Len(t) /\ i = Len(s) + (i - Len(s))
    BY <1>1
  <2> QED
    BY <1>1, <2>1
<1>3. ToSet(st) = ToSet(s) \cup ToSet(t)
  <2>1. ToSet(st) \subseteq ToSet(s) \cup ToSet(t)
    BY <1>1, <1>2 DEF ToSet
  <2>2. ASSUME NEW i \in 1 .. Len(s) PROVE s[i] \in ToSet(st)
    <3>1. i \in DOMAIN st
      BY <1>1
    <3> QED
      BY <1>1, <3>1 DEF ToSet
  <2>3. ASSUME NEW i \in 1 .. Len(t) PROVE t[i] \in ToSet(st)
    <3>1. Len(s) + i \in DOMAIN st
      BY <1>1
    <3> QED
      BY <1>1, <3>1 DEF ToSet
  <2>4. ToSet(s) \subseteq ToSet(st) /\ ToSet(t) \subseteq ToSet(st)
    <3> HIDE DEF st
    <3>1. /\ ToSet(s) = {s[i] : i \in 1 .. Len(s)}
          /\ ToSet(t) = {t[i] : i \in 1 .. Len(t)}
      BY <1>1 DEF ToSet
    <3> QED
      BY <2>2, <2>3, <3>1
  <2> QED
    BY <2>1, <2>4
<1>4. ASSUME NEW i \in DOMAIN st, NEW j \in DOMAIN st, st[i] = st[j] PROVE i = j
  <2>1. i \in Int /\ j \in Int
    BY <1>1
  <2>2. CASE i \in 1 .. Len(s) /\ j \in 1 .. Len(s)
    BY <1>1, <1>4, <2>2 DEF IsInjective
  <2>3. CASE i - Len(s) \in 1 .. Len(t) /\ j - Len(s) \in 1 .. Len(t)
    <3>1. /\ st[i] = t[i - Len(s)] /\ st[j] = t[j - Len(s)]
      <4>1. i \notin 1 .. Len(s) /\ j \notin 1 .. Len(s)
        BY <1>1, <2>1, <2>3
      <4> QED
        BY <1>2, <4>1
    <3>2. i - Len(s) = j - Len(s)
      BY <1>1, <1>4, <2>3, <3>1 DEF IsInjective
    <3> QED
      BY <1>1, <2>1, <3>2
  <2>4. CASE i \in 1 .. Len(s) /\ j \notin 1 .. Len(s)
    <3>1. st[i] \in ToSet(s) /\ st[j] \in ToSet(t)
      BY <1>1, <1>2, <2>4 DEF ToSet
    <3> QED
      BY <1>4, <3>1
  <2>5. CASE j \in 1 .. Len(s) /\ i \notin 1 .. Len(s)
    <3>1. st[j] \in ToSet(s) /\ st[i] \in ToSet(t)
      BY <1>1, <1>2, <2>5 DEF ToSet
    <3> QED
      BY <1>4, <3>1
  <2> QED
    BY <1>2, <2>2, <2>3, <2>4, <2>5
<1>5. IsInjective(st)
  BY <1>4 DEF IsInjective
<1> QED
  BY <1>1, <1>3, <1>5 DEF st

\* The hits to come after a page are those to come before it without the page.
LEMMA PageTaken ==
  ASSUME PagesInv, NextPage, pgStep = "open"
  PROVE  /\ ToSet(PageOf(HitsAfter)) \subseteq HitsAfter
         /\ IsInjective(PageOf(HitsAfter))
         /\ PageOf(HitsAfter) \in Seq(PgDocs)
         /\ HitsAfter' = HitsAfter \ ToSet(PageOf(HitsAfter))
         /\ Ends(PageOf(HitsAfter)) => ToSet(PageOf(HitsAfter)) = HitsAfter
         /\ pgAfter' \subseteq pgPit
<1> DEFINE H == HitsAfter
           page == PageOf(H)
           size == SizeOf(H)
<1>1. H \subseteq pgPit /\ H \in SUBSET PgDocs /\ pgSize \in PgRows /\ pgSize \in Nat \ {0}
  BY PgAssumption DEF HitsAfter, PagesInv
<1>2. /\ Cardinality(H) \in Nat /\ size \in 0 .. Cardinality(H)
      /\ page \in [1 .. size -> H] /\ FirstHits(H, page)
  BY <1>1, PageFirst
<1>3. /\ size = IF Cardinality(H) < pgSize THEN Cardinality(H) ELSE pgSize
      /\ IsFiniteSet(H) /\ (Cardinality(H) = 0 <=> H = {})
  BY <1>1, PgAssumption, FS_Subset, FS_EmptySet DEF SizeOf
<1>4. pgAfter' = (IF page = <<>> THEN pgAfter ELSE {page[Len(page)]}) /\ pgPit' = pgPit
  BY DEF NextPage
<1>5. H' = {d \in pgPit' : \A last \in pgAfter' : SortsBefore(last, d)}
  BY DEF HitsAfter
<1> HIDE DEF page, size
<1>6. /\ DOMAIN page = 1 .. size /\ size \in Nat /\ Len(page) = size
      /\ page \in Seq(H) /\ page \in Seq(PgDocs) /\ ToSet(page) \subseteq H
  <2>1. DOMAIN page = 1 .. size /\ size \in Nat
    BY <1>2
  <2>2. page \in Seq(H) /\ page \in Seq(PgDocs)
    BY <1>1, <1>2, <2>1
  <2>3. Len(page) = size
    BY <2>1, <2>2
  <2>4. ToSet(page) \subseteq H
    BY <1>2, <2>1 DEF ToSet
  <2> QED
    BY <2>1, <2>2, <2>3, <2>4
<1>7. IsInjective(page)
  BY <1>2 DEF FirstHits
<1>8. CASE size = 0
  <2>1. H = {} /\ page = <<>> /\ ToSet(page) = {}
    BY <1>1, <1>2, <1>3, <1>6, <1>8 DEF ToSet
  <2>2. H' = H
    BY <1>4, <1>5, <2>1 DEF HitsAfter
  <2>3. pgAfter' \subseteq pgPit
    BY <1>4, <2>1 DEF PagesInv
  <2> QED
    BY <1>6, <1>7, <2>1, <2>2, <2>3 DEF page
<1>9. CASE size # 0
  <2> DEFINE last == page[size]
  <2>1. size \in 1 .. size /\ last \in H /\ last \in ToSet(page)
    BY <1>2, <1>6, <1>9 DEF ToSet
  <2>2. page # <<>> /\ pgAfter' = {last}
    BY <1>4, <1>6, <1>9
  <2>3. H' = {d \in pgPit : SortsBefore(last, d)}
    BY <1>4, <1>5, <2>2
  <2>4. ASSUME NEW d \in ToSet(page) PROVE ~SortsBefore(last, d)
    <3>1. PICK i \in 1 .. size : d = page[i]
      BY <1>6 DEF ToSet
    <3>2. CASE i = size
      BY <1>1, <2>1, <3>1, <3>2, SortsTotally
    <3>3. CASE i # size
      <4>1. i < size
        BY <1>6, <3>1, <3>3
      <4> QED
        BY <1>2, <1>6, <2>1, <3>1, <4>1 DEF FirstHits
    <3> QED
      BY <3>2, <3>3
  <2>5. ASSUME NEW d \in H \ ToSet(page) PROVE SortsBefore(last, d)
    <3>1. ~SortsBefore(d, last) /\ d # last
      BY <1>2, <1>6, <2>1 DEF FirstHits
    <3> QED
      BY <1>1, <2>1, <3>1, SortsTotally
  <2>6. ASSUME NEW d \in pgPit, SortsBefore(last, d) PROVE d \in H
    <3>1. \A before \in pgAfter : SortsBefore(before, last) /\ before \in PgDocs
      BY <2>1 DEF HitsAfter, PagesInv
    <3>2. d \in PgDocs /\ last \in PgDocs
      BY <1>1, <2>1 DEF PagesInv
    <3>3. \A before \in pgAfter : SortsBefore(before, d)
      BY <2>6, <3>1, <3>2, SortsTotally
    <3> QED
      BY <3>3 DEF HitsAfter
  <2>7. H' = H \ ToSet(page)
    BY <1>1, <2>3, <2>4, <2>5, <2>6
  <2>8. Ends(page) => ToSet(page) = H
    <3> SUFFICES ASSUME Ends(page) PROVE ToSet(page) = H
      OBVIOUS
    <3>1. size < pgSize
      BY <1>6, <2>2 DEF Ends
    <3>2. size = Cardinality(H)
      BY <1>1, <1>2, <1>3, <3>1
    <3>3. Cardinality(ToSet(page)) = size
      BY <1>2, <1>6, <1>7, PageCount
    <3> QED
      BY <1>3, <1>6, <3>2, <3>3, FS_Subset
  <2> QED
    BY <1>1, <1>6, <1>7, <2>1, <2>2, <2>7, <2>8 DEF page
<1> QED
  BY <1>6, <1>8, <1>9 DEF page

LEMMA PagesNext ==
  ASSUME PagesInv, PgNext
  PROVE  PagesInv'
<1>1. CASE \E d \in PgDocs : ChangeIndex(d)
  BY <1>1 DEF ChangeIndex, PagesInv, HitsAfter
<1>2. ASSUME NEW mode \in {"search", "scan"}, NEW size \in PgRows, OpenPit(mode, size)
      PROVE  PagesInv'
  <2>1. pgAfter = {} /\ pgOut = <<>> /\ pgAfter' = {} /\ pgOut' = <<>>
    BY <1>2 DEF OpenPit, PagesInv
  <2>2. HitsAfter' = pgPit'
    BY <2>1 DEF HitsAfter
  <2>3. ToSet(<<>>) = {} /\ IsInjective(<<>>)
    BY DEF ToSet, IsInjective
  <2>4. pgPit' \subseteq PgDocs
    BY <1>2 DEF OpenPit, PagesInv
  <2> QED
    BY <1>2, <2>1, <2>2, <2>3, <2>4 DEF OpenPit, PagesInv
<1>3. CASE PitExpires
  BY <1>3 DEF PitExpires, PagesInv, HitsAfter
<1>4. CASE NextPage
  <2> DEFINE page == PageOf(HitsAfter)
  <2>1. /\ pgStep = "open" /\ pgOut' = pgOut \o page
        /\ pgStep' = IF Ends(page) THEN "closed" ELSE "open"
        /\ UNCHANGED <<pgIndex, pgSize, pgPit>>
    BY <1>4 DEF NextPage
  <2>2. /\ ToSet(page) \subseteq HitsAfter /\ IsInjective(page) /\ page \in Seq(PgDocs)
        /\ HitsAfter' = HitsAfter \ ToSet(page)
        /\ Ends(page) => ToSet(page) = HitsAfter
        /\ pgAfter' \subseteq pgPit
    BY <1>4, <2>1, PageTaken
  <2> HIDE DEF page
  <2>3. /\ pgOut \in Seq(PgDocs) /\ IsInjective(pgOut) /\ ToSet(pgOut) = pgPit \ HitsAfter
        /\ pgSize \in PgRows /\ pgIndex \subseteq PgDocs /\ pgPit \subseteq PgDocs
    BY <2>1 DEF PagesInv
  <2>4. /\ pgOut' \in Seq(PgDocs) /\ IsInjective(pgOut')
        /\ ToSet(pgOut') = ToSet(pgOut) \cup ToSet(page)
    <3>1. ToSet(pgOut) \cap ToSet(page) = {}
      BY <2>2, <2>3
    <3> QED
      BY <2>1, <2>2, <2>3, <3>1, Joined
  <2>5. HitsAfter \subseteq pgPit
    BY DEF HitsAfter
  <2>6. ToSet(pgOut') = pgPit' \ HitsAfter'
    BY <2>1, <2>2, <2>3, <2>4, <2>5
  <2>7. pgStep' = "closed" => HitsAfter' = {}
    BY <2>1, <2>2
  <2>8. pgStep' # "new"
    BY <2>1
  <2> QED
    BY <2>1, <2>2, <2>3, <2>4, <2>6, <2>7, <2>8 DEF PagesInv
<1> QED
  BY <1>1, <1>2, <1>3, <1>4 DEF PgNext

LEMMA PagesInvStep == PagesInv /\ [PgNext]_pgVars => PagesInv'
<1>1. PagesInv /\ UNCHANGED pgVars => PagesInv'
  BY DEF pgVars, PagesInv, HitsAfter
<1> QED
  BY <1>1, PagesNext

(***************************************************************************)
(* Reading page by page returns no document twice and, once it is through, *)
(* all that the point in time holds: however many documents share a sort   *)
(* value, for every size of a page, whatever is changed in the index       *)
(* meanwhile.                                                              *)
(***************************************************************************)
THEOREM PagesAreWhole == PgSpec => []PagesWhole
<1>1. PagesInv => PagesWhole
  BY DEF PagesInv, PagesWhole, HitsAfter
<1> QED
  BY <1>1, PagesInit, PagesInvStep, PTL DEF PgSpec

----------------------------------------------------------------------------
\* The tree of the files of a submission.

TreePaths == Seq(FtFiles) \ {<<>>}
Trees == UNION {[D -> BOOLEAN] : D \in SUBSET TreePaths}
Walks == [branch : Trees, truncated : BOOLEAN, met : SUBSET FtFiles]
Additions == [tree : Trees, met : SUBSET FtFiles]
Processes == [FtFiles -> [SUBSET FtFiles -> Additions]]
AllLists == [FtFiles -> Seq(FtFiles)]

LEMMA TreesAre ==
  /\ \A t \in Trees : DOMAIN t \subseteq TreePaths /\ t \in [DOMAIN t -> BOOLEAN]
  /\ \A D \in SUBSET TreePaths : [D -> BOOLEAN] \subseteq Trees
  /\ FtNothing \in Trees /\ DOMAIN FtNothing = {}
BY DEF Trees, FtNothing

LEMMA PathLast ==
  ASSUME NEW p \in TreePaths
  PROVE  Last(p) \in FtFiles /\ Len(p) \in Nat \ {0} /\ p[1] \in FtFiles
BY DEF TreePaths, Last

LEMMA PathOne ==
  ASSUME NEW f \in FtFiles
  PROVE  /\ <<f>> \in TreePaths /\ Last(<<f>>) = f /\ Len(<<f>>) = 1 /\ <<f>>[1] = f
         /\ \A p \in TreePaths : Len(p) = 1 => p = <<p[1]>> /\ Last(p) = p[1]
BY DEF TreePaths, Last

LEMMA PathBelow ==
  ASSUME NEW f \in FtFiles, NEW p \in TreePaths
  PROVE  /\ <<f>> \o p \in TreePaths /\ Last(<<f>> \o p) = Last(p) /\ Tail(<<f>> \o p) = p
         /\ (<<f>> \o p)[1] = f /\ Len(<<f>> \o p) > 1
<1> DEFINE q == <<f>> \o p
<1>1. p \in Seq(FtFiles) /\ Len(p) \in Nat /\ Len(p) > 0
  BY DEF TreePaths
<1>2. q \in Seq(FtFiles) /\ Len(q) = Len(p) + 1 /\ q[1] = f
  BY <1>1
<1>3. q[Len(p) + 1] = p[Len(p)]
  BY <1>1
<1>4. Tail(q) = p
  <2>1. Tail(q) \in Seq(FtFiles) /\ Len(Tail(q)) = Len(p)
    BY <1>1, <1>2
  <2>2. ASSUME NEW i \in 1 .. Len(p) PROVE Tail(q)[i] = p[i]
    BY <1>1, <1>2
  <2> QED
    BY <2>1, <2>2, <1>1
<1> QED
  BY <1>1, <1>2, <1>3, <1>4 DEF TreePaths, Last

LEMMA FilesOfTree ==
  ASSUME NEW t \in Trees
  PROVE  FilesIn(t) \subseteq FtFiles
BY TreesAre, PathLast DEF FilesIn

\* Two trees side by side.
Beside(b, t) == [p \in DOMAIN b \cup DOMAIN t |-> IF p \in DOMAIN t THEN t[p] ELSE b[p]]
OnePlace(t) == \A p, q \in DOMAIN t : Last(p) = Last(q) => p = q

LEMMA TreesBeside ==
  ASSUME NEW b \in Trees, NEW t \in Trees
  PROVE  /\ Beside(b, t) \in Trees
         /\ DOMAIN Beside(b, t) = DOMAIN b \cup DOMAIN t
         /\ FilesIn(Beside(b, t)) = FilesIn(b) \cup FilesIn(t)
         /\ OnePlace(b) /\ OnePlace(t) /\ FilesIn(b) \cap FilesIn(t) = {}
              => OnePlace(Beside(b, t))
<1>1. DOMAIN Beside(b, t) = DOMAIN b \cup DOMAIN t
  BY DEF Beside
<1>2. Beside(b, t) \in [DOMAIN b \cup DOMAIN t -> BOOLEAN]
  <2>1. b \in [DOMAIN b -> BOOLEAN] /\ t \in [DOMAIN t -> BOOLEAN]
    BY TreesAre
  <2>2. ASSUME NEW p \in DOMAIN b \cup DOMAIN t
        PROVE  (IF p \in DOMAIN t THEN t[p] ELSE b[p]) \in BOOLEAN
    <3>1. CASE p \in DOMAIN t
      BY <2>1, <3>1
    <3>2. CASE p \notin DOMAIN t
      BY <2>1, <3>2
    <3> QED
      BY <3>1, <3>2
  <2> QED
    BY <2>2 DEF Beside
<1>3. Beside(b, t) \in Trees
  <2>1. DOMAIN b \cup DOMAIN t \in SUBSET TreePaths
    BY TreesAre
  <2> QED
    BY <2>1, <1>2, TreesAre
<1>4. FilesIn(Beside(b, t)) = FilesIn(b) \cup FilesIn(t)
  BY <1>1 DEF FilesIn
<1>5. ASSUME OnePlace(b), OnePlace(t), FilesIn(b) \cap FilesIn(t) = {}
      PROVE  OnePlace(Beside(b, t))
  BY <1>1, <1>5 DEF OnePlace, FilesIn
<1> QED
  BY <1>1, <1>3, <1>4, <1>5

LEMMA EnterBeside ==
  ASSUME NEW w \in Walks, NEW f \in FtFiles, NEW process \in Processes
  PROVE  LET met == w.met \cup {f}
             sub == process[f][met]
             new == Enter(w, f, process)
         IN /\ met \in SUBSET FtFiles /\ sub \in Additions
            /\ new \in Walks /\ new.truncated = w.truncated
            /\ <<f>> \in DOMAIN w.branch => new.branch = w.branch /\ new.met = met
            /\ <<f>> \notin DOMAIN w.branch =>
                 new.branch = Beside(w.branch, sub.tree) /\ new.met = sub.met
<1> DEFINE met == w.met \cup {f}
           sub == process[f][met]
           new == Enter(w, f, process)
<1>1. met \in SUBSET FtFiles /\ sub \in Additions
  BY DEF Walks, Processes
<1>2. w.branch \in Trees /\ sub.tree \in Trees /\ sub.met \in SUBSET FtFiles
      /\ w.truncated \in BOOLEAN
  BY <1>1 DEF Additions, Walks
<1>3. CASE <<f>> \in DOMAIN w.branch
  <2>1. new = [w EXCEPT !.met = met]
    BY <1>3 DEF Enter
  <2> HIDE DEF new, met, sub
  <2>2. new = [branch |-> w.branch, truncated |-> w.truncated, met |-> met]
    BY <2>1 DEF Walks
  <2> QED
    BY <1>1, <1>2, <1>3, <2>2 DEF Walks, new, met, sub
<1>4. CASE <<f>> \notin DOMAIN w.branch
  <2>1. new = [w EXCEPT !.branch = Beside(w.branch, sub.tree), !.met = sub.met]
    BY <1>4 DEF Enter, Beside
  <2>2. Beside(w.branch, sub.tree) \in Trees
    BY <1>2, TreesBeside
  <2> HIDE DEF new, met, sub
  <2>3. new = [branch |-> Beside(w.branch, sub.tree), truncated |-> w.truncated, met |-> sub.met]
    BY <2>1 DEF Walks
  <2>4. new \in Walks /\ new.truncated = w.truncated
        /\ new.branch = Beside(w.branch, sub.tree) /\ new.met = sub.met
    BY <1>2, <2>2, <2>3 DEF Walks
  <2> QED
    BY <1>1, <1>4, <2>4 DEF new, met, sub
<1> QED
  BY <1>3, <1>4

LEMMA ChildWalks ==
  ASSUME NEW w \in Walks, NEW f \in FtFiles, NEW process \in Processes
  PROVE  Child(w, f, process) \in Walks
<1>1. Enter(w, f, process) \in Walks
  BY EnterBeside
<1>2. [w EXCEPT !.truncated = TRUE] \in Walks
  BY DEF Walks
<1> QED
  BY <1>1, <1>2 DEF Child

LEMMA StartWalks ==
  ASSUME NEW met \in SUBSET FtFiles
  PROVE  /\ StartWalk(met) \in Walks
         /\ StartWalk(met).branch = FtNothing /\ StartWalk(met).met = met
BY TreesAre DEF StartWalk, Walks

\* The walk of a list of children.
WalkOver(g, list, met, process) ==
  g = [k \in 0 .. Len(list) |->
         IF k = 0 THEN StartWalk(met) ELSE Child(g[k - 1], list[k], process)]
TheWalk(list, met, process) == CHOOSE g : WalkOver(g, list, met, process)

LEMMA ChildrenLast ==
  ASSUME NEW list, NEW met, NEW process
  PROVE  Children(list, met, process) = TheWalk(list, met, process)[Len(list)]
BY DEF Children, TheWalk, WalkOver

LEMMA WalkOfList ==
  ASSUME NEW list \in Seq(FtFiles), NEW met \in SUBSET FtFiles, NEW process \in Processes
  PROVE  /\ WalkOver(TheWalk(list, met, process), list, met, process)
         /\ TheWalk(list, met, process) \in [0 .. Len(list) -> Walks]
<1> DEFINE step == [k \in 1 .. Len(list) |-> [w \in Walks |-> Child(w, list[k], process)]]
           g == TheWalk(list, met, process)
<1>0. Len(list) \in Nat /\ \A k \in 1 .. Len(list) : list[k] \in FtFiles
  OBVIOUS
<1>1. step \in [1 .. Len(list) -> [Walks -> Walks]]
  BY <1>0, ChildWalks
<1>2. \A k \in 1 .. Len(list), w \in Walks : step[k][w] = Child(w, list[k], process)
  OBVIOUS
<1>3. \E h \in [0 .. Len(list) -> Walks] : Repeated(h, StartWalk(met), step, Len(list))
  <2> HIDE DEF step
  <2> QED
    BY <1>0, <1>1, StartWalks, Repeats
<1>4. \A k \in 0 .. Len(list) : k # 0 => k \in 1 .. Len(list) /\ k - 1 \in 0 .. Len(list)
  BY <1>0
<1>5. ASSUME NEW h \in [0 .. Len(list) -> Walks], Repeated(h, StartWalk(met), step, Len(list))
      PROVE  WalkOver(h, list, met, process)
  <2> HIDE DEF step
  <2> QED
    BY <1>2, <1>4, <1>5 DEF Repeated, WalkOver
<1>6. WalkOver(g, list, met, process)
  BY <1>3, <1>5 DEF TheWalk
<1>7. \A k \in 0 .. Len(list) : g[k] \in Walks
  <2> DEFINE P == {k \in Nat : k <= Len(list) => g[k] \in Walks}
  <2> HIDE DEF g
  <2>1. 0 \in P
    BY <1>0, <1>6, StartWalks DEF WalkOver
  <2>2. ASSUME NEW k \in P PROVE k + 1 \in P
    <3> SUFFICES ASSUME k + 1 <= Len(list) PROVE g[k + 1] \in Walks
      OBVIOUS
    <3>1. k + 1 \in 0 .. Len(list) /\ k + 1 # 0 /\ (k + 1) - 1 = k
      BY <1>0
    <3>2. g[k + 1] = Child(g[k], list[k + 1], process)
      BY <1>6, <3>1 DEF WalkOver
    <3>3. g[k] \in Walks /\ list[k + 1] \in FtFiles
      BY <1>0, <1>4, <3>1
    <3> QED
      BY <3>2, <3>3, ChildWalks
  <2>3. P = Nat
    <3>1. P \in SUBSET Nat
      OBVIOUS
    <3> HIDE DEF P
    <3> QED
      BY <2>1, <2>2, <3>1, AllNumbers
  <2> QED
    BY <2>3, <1>0
<1>8. DOMAIN g = 0 .. Len(list) /\ g = [k \in 0 .. Len(list) |-> g[k]]
  BY <1>6 DEF WalkOver
<1> HIDE DEF g
<1> QED
  BY <1>6, <1>7, <1>8 DEF g

\* The files that are not met.
Unmet(met) == Cardinality(FtFiles \ met)

LEMMA UnmetLess ==
  ASSUME NEW met \in SUBSET FtFiles, NEW more \in SUBSET FtFiles, met \subseteq more
  PROVE  /\ Unmet(met) \in Nat /\ Unmet(more) \in Nat /\ Unmet(more) <= Unmet(met)
         /\ Unmet(met) <= Cardinality(FtFiles) /\ Cardinality(FtFiles) \in Nat
         /\ \A f \in more \ met : Unmet(more) < Unmet(met)
<1>1. IsFiniteSet(FtFiles)
  BY FtAssumption
<1>2. IsFiniteSet(FtFiles \ met) /\ FtFiles \ more \in SUBSET (FtFiles \ met)
      /\ FtFiles \ met \in SUBSET FtFiles
  BY <1>1, FS_Subset
<1>3. IsFiniteSet(FtFiles \ more) /\ Unmet(more) <= Unmet(met)
      /\ (Unmet(more) = Unmet(met) => FtFiles \ more = FtFiles \ met)
  BY <1>2, FS_Subset DEF Unmet
<1>4. Unmet(met) \in Nat /\ Unmet(more) \in Nat /\ Cardinality(FtFiles) \in Nat
  BY <1>1, <1>2, <1>3, FS_CardinalityType DEF Unmet
<1>5. Unmet(met) <= Cardinality(FtFiles)
  BY <1>1, <1>2, FS_Subset DEF Unmet
<1>6. ASSUME NEW f \in more \ met PROVE Unmet(more) # Unmet(met)
  BY <1>3
<1>7. ASSUME NEW f \in more \ met PROVE Unmet(more) < Unmet(met)
  <2>1. Unmet(more) # Unmet(met)
    BY <1>6
  <2> QED
    BY <2>1, <1>3, <1>4
<1> QED
  BY <1>3, <1>4, <1>5, <1>7

\* What a file adds that was not met before: itself and files that are met from
\* then on, each in one place, all that its closure has; with levels enough,
\* every file that is met is added and what it contains is met.
Complies(lists, start, files) ==
  \A C \in SUBSET FtFiles : ClosedUnder(lists, C) /\ start \subseteq C => files \subseteq C

Adds(lists, n, f, met, r) ==
  /\ met \subseteq r.met
  /\ FilesIn(r.tree) \subseteq {f} \cup (r.met \ met)
  /\ OnePlace(r.tree)
  /\ Complies(lists, {f}, FilesIn(r.tree))
  /\ \A p \in DOMAIN r.tree : p[1] = f
  /\ n > 0 => <<f>> \in DOMAIN r.tree
  /\ n > Unmet(met) => /\ r.met \ met \subseteq FilesIn(r.tree)
                       /\ \A g \in FilesIn(r.tree) : ToSet(lists[g]) \subseteq r.met

Builds(lists, n, process) ==
  /\ process \in Processes
  /\ \A f \in FtFiles, met \in SUBSET FtFiles : f \in met => Adds(lists, n, f, met, process[f][met])

Walked(lists, n, list, k, met, w) ==
  /\ met \subseteq w.met
  /\ \A i \in 1 .. k : list[i] \in w.met
  /\ FilesIn(w.branch) \subseteq w.met \ met
  /\ OnePlace(w.branch)
  /\ Complies(lists, ToSet(list), FilesIn(w.branch))
  /\ n >= Unmet(met) => /\ w.met \ met \subseteq FilesIn(w.branch)
                        /\ \A g \in FilesIn(w.branch) : ToSet(lists[g]) \subseteq w.met

LEMMA WalkedStart ==
  ASSUME NEW lists, NEW n, NEW list, NEW met \in SUBSET FtFiles
  PROVE  Walked(lists, n, list, 0, met, StartWalk(met))
<1>1. FilesIn(FtNothing) = {} /\ OnePlace(FtNothing)
  BY DEF FtNothing, FilesIn, OnePlace
<1> QED
  BY <1>1, StartWalks DEF Walked, Complies

LEMMA WalkedChild ==
  ASSUME NEW lists \in AllLists, NEW n \in Nat, NEW process, Builds(lists, n, process),
         NEW list \in Seq(FtFiles), NEW k \in 0 .. Len(list) - 1,
         NEW met \in SUBSET FtFiles, NEW w \in Walks, Walked(lists, n, list, k, met, w)
  PROVE  Walked(lists, n, list, k + 1, met, Child(w, list[k + 1], process))
<1> DEFINE g == list[k + 1]
           new == Child(w, g, process)
           more == w.met \cup {g}
           sub == process[g][more]
<1>1. g \in FtFiles /\ g \in ToSet(list) /\ k \in Nat
  BY DEF ToSet
<1>2. ASSUME NEW M, w.met \subseteq M, g \in M
      PROVE  met \subseteq M /\ \A i \in 1 .. k + 1 : list[i] \in M
  <2>1. \A i \in 1 .. k + 1 : i \in 1 .. k \/ i = k + 1
    BY <1>1
  <2> QED
    BY <2>1, <1>2 DEF Walked
<1> HIDE DEF g
<1>3. CASE g \in w.met
  <2>1. new = [w EXCEPT !.truncated = TRUE]
    BY <1>3 DEF Child, Met
  <2>2. new.branch = w.branch /\ new.met = w.met
    BY <2>1 DEF Walks
  <2> QED
    BY <1>2, <1>3, <2>2 DEF Walked, g
<1>4. CASE g \notin w.met
  <2>1. new = Enter(w, g, process)
    BY <1>4 DEF Child, Met
  <2>2. process \in Processes /\ w.branch \in Trees /\ w.met \in SUBSET FtFiles
    BY DEF Builds, Walks
  <2>3. more \in SUBSET FtFiles /\ g \in more /\ met \subseteq more /\ met \subseteq w.met
    BY <1>1, <2>2 DEF Walked
  <2>4. Adds(lists, n, g, more, sub)
    BY <1>1, <2>3 DEF Builds
  <2>5. FilesIn(w.branch) \subseteq w.met \ met
    BY DEF Walked
  <2>6. <<g>> \notin DOMAIN w.branch
    <3>1. Last(<<g>>) = g
      BY <1>1, PathOne
    <3> QED
      BY <3>1, <1>4, <2>5 DEF FilesIn
  <2>7. /\ new.branch = Beside(w.branch, sub.tree) /\ new.met = sub.met
        /\ sub \in Additions
    BY <1>1, <2>1, <2>2, <2>6, EnterBeside
  <2>8. sub.tree \in Trees
    BY <2>7 DEF Additions
  <2>9. FilesIn(new.branch) = FilesIn(w.branch) \cup FilesIn(sub.tree)
    BY <2>2, <2>7, <2>8, TreesBeside
  <2> HIDE DEF new, sub
  <2>10. FilesIn(sub.tree) \subseteq {g} \cup (sub.met \ more) /\ more \subseteq sub.met
         /\ OnePlace(sub.tree) /\ Complies(lists, {g}, FilesIn(sub.tree))
    BY <2>4 DEF Adds
  <2>11. met \subseteq new.met /\ \A i \in 1 .. k + 1 : list[i] \in new.met
    BY <1>2, <2>7, <2>10
  <2>12. FilesIn(new.branch) \subseteq new.met \ met
    BY <1>4, <2>3, <2>5, <2>7, <2>9, <2>10
  <2>13. OnePlace(new.branch)
    <3>1. FilesIn(w.branch) \cap FilesIn(sub.tree) = {}
      BY <1>4, <2>5, <2>10
    <3>2. OnePlace(w.branch)
      BY DEF Walked
    <3>3. OnePlace(sub.tree)
      BY <2>10
    <3>4. OnePlace(Beside(w.branch, sub.tree))
      BY <3>1, <3>2, <3>3, <2>2, <2>8, TreesBeside
    <3> QED
      BY <3>4, <2>7
  <2>14. Complies(lists, ToSet(list), FilesIn(new.branch))
    <3>1. Complies(lists, ToSet(list), FilesIn(w.branch))
      BY DEF Walked
    <3> QED
      BY <1>1, <2>9, <2>10, <3>1 DEF Complies
  <2>15. ASSUME n >= Unmet(met)
         PROVE  /\ new.met \ met \subseteq FilesIn(new.branch)
                /\ \A h \in FilesIn(new.branch) : ToSet(lists[h]) \subseteq new.met
    <3>1. Unmet(more) < Unmet(met) /\ Unmet(met) \in Nat /\ Unmet(more) \in Nat
      <4>1. g \in more \ met
        BY <1>4, <2>3
      <4> HIDE DEF more
      <4> QED
        BY <4>1, <2>3, UnmetLess
    <3>2. n > Unmet(more)
      BY <2>15, <3>1
    <3>3. /\ sub.met \ more \subseteq FilesIn(sub.tree)
          /\ \A h \in FilesIn(sub.tree) : ToSet(lists[h]) \subseteq sub.met
      BY <2>4, <3>2 DEF Adds
    <3>4. g \in FilesIn(sub.tree)
      <4>1. n > 0
        BY <3>1, <3>2
      <4>2. <<g>> \in DOMAIN sub.tree /\ Last(<<g>>) = g
        BY <2>4, <4>1, <1>1, PathOne DEF Adds
      <4> QED
        BY <4>2 DEF FilesIn
    <3>5. /\ w.met \ met \subseteq FilesIn(w.branch)
          /\ \A h \in FilesIn(w.branch) : ToSet(lists[h]) \subseteq w.met
      BY <2>15 DEF Walked
    <3>6. new.met \ met \subseteq FilesIn(new.branch)
      BY <2>7, <2>9, <3>3, <3>4, <3>5
    <3>7. \A h \in FilesIn(new.branch) : ToSet(lists[h]) \subseteq new.met
      BY <2>7, <2>9, <2>10, <3>3, <3>5
    <3> QED
      BY <3>6, <3>7
  <2>16. Walked(lists, n, list, k + 1, met, new)
    BY <2>11, <2>12, <2>13, <2>14, <2>15 DEF Walked
  <2> QED
    BY <2>16 DEF new, g
<1> QED
  BY <1>3, <1>4

LEMMA ChildrenWalked ==
  ASSUME NEW lists \in AllLists, NEW n \in Nat, NEW process, Builds(lists, n, process),
         NEW list \in Seq(FtFiles), NEW met \in SUBSET FtFiles
  PROVE  /\ Children(list, met, process) \in Walks
         /\ Walked(lists, n, list, Len(list), met, Children(list, met, process))
<1> DEFINE g == TheWalk(list, met, process)
           P == {k \in Nat : k <= Len(list) => Walked(lists, n, list, k, met, g[k])}
<1>1. WalkOver(g, list, met, process) /\ g \in [0 .. Len(list) -> Walks] /\ Len(list) \in Nat
  <2>1. process \in Processes
    BY DEF Builds
  <2> HIDE DEF P
  <2>2. WalkOver(g, list, met, process)
    BY <2>1, WalkOfList
  <2>3. g \in [0 .. Len(list) -> Walks]
    BY <2>1, WalkOfList
  <2> QED
    BY <2>2, <2>3
<1> HIDE DEF g
<1>2. 0 \in P
  <2>1. g[0] = StartWalk(met)
    BY <1>1 DEF WalkOver
  <2> QED
    BY <2>1, WalkedStart
<1>3. ASSUME NEW k \in P PROVE k + 1 \in P
  <2> SUFFICES ASSUME k + 1 <= Len(list) PROVE Walked(lists, n, list, k + 1, met, g[k + 1])
    OBVIOUS
  <2>1. k + 1 \in 0 .. Len(list) /\ k + 1 # 0 /\ (k + 1) - 1 = k
        /\ k \in 0 .. Len(list) - 1 /\ k \in 0 .. Len(list) /\ k <= Len(list)
    BY <1>1
  <2>2. g[k + 1] = Child(g[k], list[k + 1], process)
    BY <1>1, <2>1 DEF WalkOver
  <2>3. g[k] \in Walks /\ Walked(lists, n, list, k, met, g[k])
    BY <1>1, <2>1
  <2> QED
    BY <2>1, <2>2, <2>3, WalkedChild
<1>4. P = Nat
  <2>1. P \in SUBSET Nat
    OBVIOUS
  <2> HIDE DEF P
  <2> QED
    BY <1>2, <1>3, <2>1, AllNumbers
<1>5. Walked(lists, n, list, Len(list), met, g[Len(list)]) /\ g[Len(list)] \in Walks
  BY <1>1, <1>4
<1> QED
  BY <1>5, ChildrenLast DEF g


LEMMA NodeTyped ==
  ASSUME NEW f \in FtFiles, NEW w \in Walks
  PROVE  /\ Node(f, w) \in Additions /\ Node(f, w).met = w.met
         /\ DOMAIN Node(f, w).tree = {<<f>>} \cup {<<f>> \o p : p \in DOMAIN w.branch}
<1> DEFINE below == {<<f>> \o p : p \in DOMAIN w.branch}
           tree == [p \in {<<f>>} \cup below |->
                      IF p = <<f>> THEN w.truncated ELSE w.branch[Tail(p)]]
<1>1. Node(f, w) = [tree |-> tree, met |-> w.met]
  BY DEF Node
<1>2. w.branch \in Trees /\ w.truncated \in BOOLEAN /\ w.met \in SUBSET FtFiles
  BY DEF Walks
<1>3. DOMAIN w.branch \subseteq TreePaths /\ w.branch \in [DOMAIN w.branch -> BOOLEAN]
  BY <1>2, TreesAre
<1>4. {<<f>>} \cup below \in SUBSET TreePaths
  <2>1. \A p \in DOMAIN w.branch : <<f>> \o p \in TreePaths
    BY <1>3, PathBelow
  <2>2. <<f>> \in TreePaths
    BY PathOne
  <2> QED
    BY <2>1, <2>2
<1>5. tree \in [{<<f>>} \cup below -> BOOLEAN]
  <2>1. ASSUME NEW p \in below PROVE Tail(p) \in DOMAIN w.branch
    <3>1. PICK q \in DOMAIN w.branch : p = <<f>> \o q
      OBVIOUS
    <3>2. Tail(p) = q
      BY <1>3, <3>1, PathBelow
    <3> QED
      BY <3>2
  <2>2. ASSUME NEW p \in {<<f>>} \cup below
        PROVE  (IF p = <<f>> THEN w.truncated ELSE w.branch[Tail(p)]) \in BOOLEAN
    <3>1. CASE p = <<f>>
      BY <1>2, <3>1
    <3>2. CASE p # <<f>>
      <4>1. Tail(p) \in DOMAIN w.branch
        BY <2>1, <3>2
      <4>2. w.branch[Tail(p)] \in BOOLEAN
        BY <1>3, <4>1
      <4> QED
        BY <3>2, <4>2
    <3> QED
      BY <3>1, <3>2
  <2> HIDE DEF below
  <2> QED
    BY <2>2
<1>6. tree \in Trees /\ DOMAIN tree = {<<f>>} \cup below
  BY <1>4, <1>5, TreesAre
<1> HIDE DEF tree, below
<1> QED
  BY <1>1, <1>2, <1>6 DEF Additions, below

LEMMA NodeAdds ==
  ASSUME NEW lists \in AllLists, NEW n \in Nat, NEW process, Builds(lists, n, process),
         NEW f \in FtFiles, NEW met \in SUBSET FtFiles, f \in met
  PROVE  LET r == Node(f, Children(lists[f], met, process))
         IN r \in Additions /\ Adds(lists, n + 1, f, met, r)
<1> DEFINE w == Children(lists[f], met, process)
           r == Node(f, w)
<1>1. lists[f] \in Seq(FtFiles)
  BY DEF AllLists
<1>2. w \in Walks /\ Walked(lists, n, lists[f], Len(lists[f]), met, w)
  BY <1>1, ChildrenWalked
<1> HIDE DEF w
<1>3. /\ r \in Additions /\ r.met = w.met
      /\ DOMAIN r.tree = {<<f>>} \cup {<<f>> \o p : p \in DOMAIN w.branch}
  BY <1>2, NodeTyped
<1>4. w.branch \in Trees
  BY <1>2 DEF Walks
<1>5. \A p \in DOMAIN w.branch : p \in TreePaths /\ Last(p) \in FilesIn(w.branch)
  BY <1>4, TreesAre DEF FilesIn
<1>6. \A p \in DOMAIN w.branch : Last(<<f>> \o p) = Last(p) /\ (<<f>> \o p)[1] = f
  BY <1>5, PathBelow
<1>7. Last(<<f>>) = f /\ <<f>>[1] = f
  BY PathOne
<1> HIDE DEF r
<1>8. FilesIn(r.tree) = {f} \cup FilesIn(w.branch)
  <2>1. {Last(p) : p \in DOMAIN r.tree}
          = {Last(<<f>>)} \cup {Last(<<f>> \o p) : p \in DOMAIN w.branch}
    BY <1>3
  <2>2. {Last(<<f>> \o p) : p \in DOMAIN w.branch} = {Last(p) : p \in DOMAIN w.branch}
    BY <1>6
  <2> QED
    BY <1>7, <2>1, <2>2 DEF FilesIn
<1>9. met \subseteq w.met /\ FilesIn(w.branch) \subseteq w.met \ met
  BY <1>2 DEF Walked
<1>10. OnePlace(r.tree)
  <2> SUFFICES ASSUME NEW p \in DOMAIN r.tree, NEW q \in DOMAIN r.tree, Last(p) = Last(q)
               PROVE  p = q
    BY DEF OnePlace
  <2>1. \A x \in DOMAIN w.branch : Last(<<f>> \o x) # f
    BY <1>5, <1>6, <1>9
  <2>2. CASE p = <<f>> \/ q = <<f>>
    BY <1>3, <1>7, <2>1, <2>2
  <2>3. CASE p # <<f>> /\ q # <<f>>
    <3>1. PICK x \in DOMAIN w.branch : p = <<f>> \o x
      BY <1>3, <2>3
    <3>2. PICK y \in DOMAIN w.branch : q = <<f>> \o y
      BY <1>3, <2>3
    <3>3. Last(x) = Last(y)
      BY <1>6, <3>1, <3>2
    <3>4. x = y
      BY <1>2, <3>3 DEF Walked, OnePlace
    <3> QED
      BY <3>1, <3>2, <3>4
  <2> QED
    BY <2>2, <2>3
<1>11. Complies(lists, {f}, FilesIn(r.tree))
  <2> SUFFICES ASSUME NEW C \in SUBSET FtFiles, ClosedUnder(lists, C), f \in C
               PROVE  FilesIn(r.tree) \subseteq C
    BY DEF Complies
  <2>1. ToSet(lists[f]) \subseteq C
    BY DEF ClosedUnder
  <2>2. FilesIn(w.branch) \subseteq C
    BY <1>2, <2>1 DEF Walked, Complies
  <2> QED
    BY <1>8, <2>2
<1>12. \A p \in DOMAIN r.tree : p[1] = f
  BY <1>3, <1>6, <1>7
<1>13. <<f>> \in DOMAIN r.tree
  BY <1>3
<1>14. ASSUME n + 1 > Unmet(met)
       PROVE  /\ r.met \ met \subseteq FilesIn(r.tree)
              /\ \A g \in FilesIn(r.tree) : ToSet(lists[g]) \subseteq r.met
  <2>1. n >= Unmet(met)
    <3>1. Unmet(met) \in Nat
      BY UnmetLess
    <3> QED
      BY <1>14, <3>1
  <2>2. /\ w.met \ met \subseteq FilesIn(w.branch)
        /\ \A g \in FilesIn(w.branch) : ToSet(lists[g]) \subseteq w.met
    BY <1>2, <2>1 DEF Walked
  <2>3. ToSet(lists[f]) \subseteq w.met
    BY <1>1, <1>2 DEF Walked, ToSet
  <2> QED
    BY <1>3, <1>8, <2>2, <2>3
<1>15. met \subseteq r.met /\ FilesIn(r.tree) \subseteq {f} \cup (r.met \ met)
  BY <1>3, <1>8, <1>9
<1>16. Adds(lists, n + 1, f, met, r)
  BY <1>10, <1>11, <1>12, <1>13, <1>14, <1>15 DEF Adds
<1> QED
  BY <1>3, <1>16 DEF r, w

\* The levels, from below.
NothingAdded == [f \in FtFiles |-> [met \in SUBSET FtFiles |-> [tree |-> FtNothing, met |-> met]]]
LevelAbove(lists, process) ==
  [f \in FtFiles |-> [met \in SUBSET FtFiles |-> Node(f, Children(lists[f], met, process))]]
LevelsAre(g, depth, lists, missing) ==
  g = [left \in 0 .. depth + 1 |->
         [f \in FtFiles |-> [met \in SUBSET FtFiles |->
            IF left = 0 \/ f \in missing THEN [tree |-> FtNothing, met |-> met]
            ELSE Node(f, Children(lists[f], met, g[left - 1]))]]]
TheLevels(depth, lists, missing) == CHOOSE g : LevelsAre(g, depth, lists, missing)

LEMMA ProcessFileLast ==
  ASSUME NEW depth, NEW lists, NEW missing
  PROVE  ProcessFile(depth, lists, missing) = TheLevels(depth, lists, missing)[depth + 1]
BY DEF ProcessFile, TheLevels, LevelsAre

LEMMA NothingBuilds ==
  ASSUME NEW lists \in AllLists
  PROVE  Builds(lists, 0, NothingAdded)
<1>1. NothingAdded \in Processes
  BY TreesAre DEF NothingAdded, Processes, Additions
<1>2. FilesIn(FtNothing) = {} /\ OnePlace(FtNothing) /\ DOMAIN FtNothing = {}
  BY DEF FtNothing, FilesIn, OnePlace
<1>3. ASSUME NEW f \in FtFiles, NEW met \in SUBSET FtFiles, f \in met
      PROVE  Adds(lists, 0, f, met, NothingAdded[f][met])
  <2>1. NothingAdded[f][met] = [tree |-> FtNothing, met |-> met]
    BY DEF NothingAdded
  <2>2. Unmet(met) \in Nat
    BY UnmetLess
  <2>3. ~ (0 > Unmet(met))
    BY <2>2
  <2> HIDE DEF NothingAdded
  <2> QED
    BY <1>2, <2>1, <2>3 DEF Adds, Complies
<1> QED
  BY <1>1, <1>3 DEF Builds

LEMMA LevelTyped ==
  ASSUME NEW lists \in AllLists, NEW process \in Processes
  PROVE  LevelAbove(lists, process) \in Processes
<1>1. ASSUME NEW f \in FtFiles, NEW met \in SUBSET FtFiles
      PROVE  Node(f, Children(lists[f], met, process)) \in Additions
  <2>1. lists[f] \in Seq(FtFiles) /\ Len(lists[f]) \in Nat
    BY DEF AllLists
  <2>2. TheWalk(lists[f], met, process) \in [0 .. Len(lists[f]) -> Walks]
    BY <2>1, WalkOfList
  <2>3. Children(lists[f], met, process) \in Walks
    BY <2>1, <2>2, ChildrenLast
  <2> QED
    BY <2>3, NodeTyped
<1> QED
  BY <1>1 DEF LevelAbove, Processes

LEMMA LevelBuilds ==
  ASSUME NEW lists \in AllLists, NEW n \in Nat, NEW process, Builds(lists, n, process)
  PROVE  Builds(lists, n + 1, LevelAbove(lists, process))
<1>1. LevelAbove(lists, process) \in Processes
  BY LevelTyped DEF Builds
<1>2. ASSUME NEW f \in FtFiles, NEW met \in SUBSET FtFiles, f \in met
      PROVE  Adds(lists, n + 1, f, met, LevelAbove(lists, process)[f][met])
  <2>1. LevelAbove(lists, process)[f][met] = Node(f, Children(lists[f], met, process))
    BY DEF LevelAbove
  <2>2. Adds(lists, n + 1, f, met, Node(f, Children(lists[f], met, process)))
    BY <1>2, NodeAdds
  <2> QED
    BY <2>1, <2>2
<1> QED
  BY <1>1, <1>2 DEF Builds

\* With no file missing, the levels exist and each builds on the one below.
LEMMA LevelsBuild ==
  ASSUME NEW depth \in Nat, NEW lists \in AllLists
  PROVE  Builds(lists, depth + 1, ProcessFile(depth, lists, {}))
<1> DEFINE N == depth + 1
           step == [k \in 1 .. N |-> [process \in Processes |-> LevelAbove(lists, process)]]
           g == TheLevels(depth, lists, {})
           P == {k \in Nat : k <= N => Builds(lists, k, g[k])}
<1>0. N \in Nat
  OBVIOUS
<1>1. step \in [1 .. N -> [Processes -> Processes]]
  BY LevelTyped
<1>2. \A k \in 1 .. N, process \in Processes : step[k][process] = LevelAbove(lists, process)
  OBVIOUS
<1>3. NothingAdded \in Processes
  BY NothingBuilds DEF Builds
<1> HIDE DEF N
<1>4. \A k \in 0 .. N : k # 0 => k \in 1 .. N /\ k - 1 \in 0 .. N
  BY <1>0
<1>5. \E h \in [0 .. N -> Processes] : Repeated(h, NothingAdded, step, N)
  <2> HIDE DEF step
  <2> QED
    BY <1>0, <1>1, <1>3, Repeats
<1>6. ASSUME NEW h \in [0 .. N -> Processes], Repeated(h, NothingAdded, step, N)
      PROVE  LevelsAre(h, depth, lists, {})
  <2> HIDE DEF step
  <2>1. \A k \in 0 .. N : k # 0 => h[k] = LevelAbove(lists, h[k - 1])
    BY <1>2, <1>4, <1>6 DEF Repeated
  <2>2. h[0] = NothingAdded /\ DOMAIN h = 0 .. N
    BY <1>0, <1>6 DEF Repeated
  <2> DEFINE body(k) == [f \in FtFiles |-> [met \in SUBSET FtFiles |->
               IF k = 0 \/ f \in {} THEN [tree |-> FtNothing, met |-> met]
               ELSE Node(f, Children(lists[f], met, h[k - 1]))]]
  <2>3. ASSUME NEW k \in 0 .. N PROVE h[k] = body(k)
    <3>1. CASE k = 0
      BY <2>2, <3>1 DEF NothingAdded
    <3>2. CASE k # 0
      BY <2>1, <3>2 DEF LevelAbove
    <3> QED
      BY <3>1, <3>2
  <2>4. h = [k \in 0 .. N |-> h[k]]
    BY <2>2
  <2>5. h = [k \in 0 .. N |-> body(k)]
    <3> HIDE DEF body
    <3> QED
      BY <2>3, <2>4
  <2> QED
    BY <2>5 DEF LevelsAre, N
<1>7. LevelsAre(g, depth, lists, {})
  BY <1>5, <1>6 DEF TheLevels
<1> HIDE DEF g
<1>8. g[0] = NothingAdded /\ \A k \in 1 .. N : g[k] = LevelAbove(lists, g[k - 1])
  <2>1. g[0] = NothingAdded
    BY <1>7, <1>0 DEF LevelsAre, NothingAdded, N
  <2>2. ASSUME NEW k \in 1 .. N PROVE g[k] = LevelAbove(lists, g[k - 1])
    <3>1. k \in 0 .. depth + 1 /\ k # 0
      BY <1>0 DEF N
    <3> QED
      BY <1>7, <3>1 DEF LevelsAre, LevelAbove
  <2> QED
    BY <2>1, <2>2
<1>9. 0 \in P
  BY <1>8, NothingBuilds
<1>10. ASSUME NEW k \in P PROVE k + 1 \in P
  <2> SUFFICES ASSUME k + 1 <= N PROVE Builds(lists, k + 1, g[k + 1])
    OBVIOUS
  <2>1. k + 1 \in 1 .. N /\ (k + 1) - 1 = k /\ k <= N /\ k \in Nat
    BY <1>0
  <2>2. g[k + 1] = LevelAbove(lists, g[k]) /\ Builds(lists, k, g[k])
    BY <1>8, <2>1
  <2> QED
    BY <2>1, <2>2, LevelBuilds
<1>11. P = Nat
  <2>1. P \in SUBSET Nat
    OBVIOUS
  <2> HIDE DEF P
  <2> QED
    BY <1>9, <1>10, <2>1, AllNumbers
<1>12. Builds(lists, N, g[N])
  BY <1>0, <1>11
<1> QED
  BY <1>12, ProcessFileLast DEF g, N


\* The submitted files, one after the other: each is at the top, what it adds
\* is below in one place.
RootsAre(g, process) ==
  g = [k \in 0 .. Len(FtRoots) |->
         IF k = 0 THEN StartWalk({}) ELSE Enter(g[k - 1], FtRoots[k], process)]
TheRoots(process) == CHOOSE g : RootsAre(g, process)

LEMMA BuildTreeLast ==
  ASSUME NEW depth, NEW lists, NEW missing
  PROVE  BuildTree(depth, lists, missing)
           = TheRoots(ProcessFile(depth, lists, missing))[Len(FtRoots)].branch
BY DEF BuildTree, TheRoots, RootsAre

LEMMA WalkOfRoots ==
  ASSUME NEW process \in Processes
  PROVE  RootsAre(TheRoots(process), process)
<1> DEFINE step == [k \in 1 .. Len(FtRoots) |-> [w \in Walks |-> Enter(w, FtRoots[k], process)]]
<1>0. Len(FtRoots) \in Nat /\ \A k \in 1 .. Len(FtRoots) : FtRoots[k] \in FtFiles
  BY FtAssumption
<1>1. step \in [1 .. Len(FtRoots) -> [Walks -> Walks]]
  BY <1>0, EnterBeside
<1>2. \A k \in 1 .. Len(FtRoots), w \in Walks : step[k][w] = Enter(w, FtRoots[k], process)
  OBVIOUS
<1>3. StartWalk({}) \in Walks
  BY StartWalks
<1>4. \A k \in 0 .. Len(FtRoots) : k # 0 => k \in 1 .. Len(FtRoots) /\ k - 1 \in 0 .. Len(FtRoots)
  BY <1>0
<1> HIDE DEF step
<1>5. PICK h \in [0 .. Len(FtRoots) -> Walks] : Repeated(h, StartWalk({}), step, Len(FtRoots))
  BY <1>0, <1>1, <1>3, Repeats
<1>6. RootsAre(h, process)
  BY <1>2, <1>4, <1>5 DEF Repeated, RootsAre
<1> QED
  BY <1>6 DEF TheRoots

Rooted(lists, n, k, w) ==
  /\ w \in Walks
  /\ FilesIn(w.branch) \subseteq w.met
  /\ \A i \in 1 .. k : FtRoots[i] \in w.met
  /\ \A p, q \in DOMAIN w.branch : Len(p) > 1 /\ Len(q) > 1 /\ Last(p) = Last(q) => p = q
  /\ \A p \in DOMAIN w.branch : p[1] \in ToSet(FtRoots)
  /\ Complies(lists, ToSet(FtRoots), FilesIn(w.branch))
  /\ n > Cardinality(FtFiles) => /\ w.met \subseteq FilesIn(w.branch)
                                 /\ \A g \in FilesIn(w.branch) : ToSet(lists[g]) \subseteq w.met

LEMMA RootedStart ==
  ASSUME NEW lists, NEW n
  PROVE  Rooted(lists, n, 0, StartWalk({}))
<1>1. FilesIn(FtNothing) = {} /\ DOMAIN FtNothing = {}
  BY DEF FtNothing, FilesIn
<1> QED
  BY <1>1, StartWalks DEF Rooted, Complies

LEMMA RootedEnter ==
  ASSUME NEW lists \in AllLists, NEW n \in Nat \ {0}, NEW process, Builds(lists, n, process),
         NEW k \in 0 .. Len(FtRoots) - 1, NEW w, Rooted(lists, n, k, w)
  PROVE  Rooted(lists, n, k + 1, Enter(w, FtRoots[k + 1], process))
<1> DEFINE g == FtRoots[k + 1]
           new == Enter(w, g, process)
           more == w.met \cup {g}
           sub == process[g][more]
<1>1. g \in FtFiles /\ g \in ToSet(FtRoots) /\ k \in Nat
  BY FtAssumption DEF ToSet
<1>2. ASSUME NEW M, w.met \subseteq M, g \in M
      PROVE  \A i \in 1 .. k + 1 : FtRoots[i] \in M
  <2>1. \A i \in 1 .. k + 1 : i \in 1 .. k \/ i = k + 1
    BY <1>1
  <2> QED
    BY <2>1, <1>2 DEF Rooted
<1> HIDE DEF g
<1>3. process \in Processes /\ w \in Walks
  BY DEF Builds, Rooted
<1>4. w.branch \in Trees /\ w.met \in SUBSET FtFiles
  BY <1>3 DEF Walks
<1>5. new \in Walks /\ more \in SUBSET FtFiles /\ sub \in Additions
  BY <1>1, <1>3, EnterBeside
<1>6. /\ FilesIn(w.branch) \subseteq w.met
      /\ \A p, q \in DOMAIN w.branch : Len(p) > 1 /\ Len(q) > 1 /\ Last(p) = Last(q) => p = q
      /\ \A p \in DOMAIN w.branch : p[1] \in ToSet(FtRoots)
      /\ Complies(lists, ToSet(FtRoots), FilesIn(w.branch))
  BY DEF Rooted
<1>7. Last(<<g>>) = g /\ Len(<<g>>) = 1
  BY <1>1, PathOne
<1>8. CASE <<g>> \in DOMAIN w.branch
  <2>1. new.branch = w.branch /\ new.met = more
    BY <1>1, <1>3, <1>8, EnterBeside
  <2>2. g \in FilesIn(w.branch)
    BY <1>7, <1>8 DEF FilesIn
  <2>3. new.met = w.met
    BY <1>6, <2>1, <2>2
  <2> HIDE DEF new
  <2>4. \A i \in 1 .. k + 1 : FtRoots[i] \in new.met
    BY <1>2, <1>6, <2>2, <2>3
  <2>5. Rooted(lists, n, k + 1, new)
    BY <1>5, <2>1, <2>3, <2>4 DEF Rooted
  <2> QED
    BY <2>5 DEF new, g
<1>9. CASE <<g>> \notin DOMAIN w.branch
  <2>1. new.branch = Beside(w.branch, sub.tree) /\ new.met = sub.met
    BY <1>1, <1>3, <1>9, EnterBeside
  <2>2. Adds(lists, n, g, more, sub)
    BY <1>1, <1>5 DEF Builds
  <2>3. sub.tree \in Trees
    BY <1>5 DEF Additions
  <2>4. FilesIn(new.branch) = FilesIn(w.branch) \cup FilesIn(sub.tree)
        /\ DOMAIN new.branch = DOMAIN w.branch \cup DOMAIN sub.tree
    BY <1>4, <2>1, <2>3, TreesBeside
  <2> HIDE DEF new, sub
  <2>5. /\ FilesIn(sub.tree) \subseteq {g} \cup (sub.met \ more) /\ more \subseteq sub.met
        /\ OnePlace(sub.tree) /\ Complies(lists, {g}, FilesIn(sub.tree))
        /\ <<g>> \in DOMAIN sub.tree
        /\ \A p \in DOMAIN sub.tree : p[1] = g
    BY <2>2 DEF Adds
  <2>6. FilesIn(new.branch) \subseteq new.met /\ \A i \in 1 .. k + 1 : FtRoots[i] \in new.met
    BY <1>2, <1>6, <2>1, <2>4, <2>5
  <2>7. ASSUME NEW p \in DOMAIN new.branch, NEW q \in DOMAIN new.branch,
               Len(p) > 1, Len(q) > 1, Last(p) = Last(q)
        PROVE  p = q
    <3>1. ASSUME NEW x \in DOMAIN sub.tree, Len(x) > 1 PROVE Last(x) \in sub.met \ more
      <4>1. x # <<g>>
        <5> SUFFICES ASSUME x = <<g>> PROVE FALSE
          OBVIOUS
        <5>1. Len(x) = 1
          BY <1>7
        <5> QED
          BY <3>1, <5>1
      <4>2. Last(x) # g
        BY <1>7, <2>5, <4>1 DEF OnePlace
      <4> QED
        BY <2>5, <4>2 DEF FilesIn
    <3>2. ASSUME NEW x \in DOMAIN w.branch PROVE Last(x) \in more
      BY <1>6 DEF FilesIn
    <3>3. CASE p \in DOMAIN w.branch /\ q \in DOMAIN w.branch
      BY <1>6, <2>7, <3>3
    <3>4. CASE p \in DOMAIN sub.tree /\ q \in DOMAIN sub.tree
      BY <2>5, <2>7, <3>4 DEF OnePlace
    <3>5. CASE p \in DOMAIN sub.tree /\ q \in DOMAIN w.branch
      BY <2>7, <3>1, <3>2, <3>5
    <3>6. CASE p \in DOMAIN w.branch /\ q \in DOMAIN sub.tree
      BY <2>7, <3>1, <3>2, <3>6
    <3> QED
      BY <2>4, <3>3, <3>4, <3>5, <3>6
  <2>8. \A p \in DOMAIN new.branch : p[1] \in ToSet(FtRoots)
    BY <1>1, <1>6, <2>4, <2>5
  <2>9. Complies(lists, ToSet(FtRoots), FilesIn(new.branch))
    BY <1>1, <1>6, <2>4, <2>5 DEF Complies
  <2>10. ASSUME n > Cardinality(FtFiles)
         PROVE  /\ new.met \subseteq FilesIn(new.branch)
                /\ \A h \in FilesIn(new.branch) : ToSet(lists[h]) \subseteq new.met
    <3>1. n > Unmet(more)
      <4>1. Unmet(more) \in Nat /\ Unmet(more) <= Cardinality(FtFiles)
            /\ Cardinality(FtFiles) \in Nat
        BY <1>5, UnmetLess
      <4> QED
        BY <2>10, <4>1
    <3>2. /\ sub.met \ more \subseteq FilesIn(sub.tree)
          /\ \A h \in FilesIn(sub.tree) : ToSet(lists[h]) \subseteq sub.met
      BY <2>2, <3>1 DEF Adds
    <3>3. g \in FilesIn(sub.tree)
      BY <1>7, <2>5 DEF FilesIn
    <3>4. /\ w.met \subseteq FilesIn(w.branch)
          /\ \A h \in FilesIn(w.branch) : ToSet(lists[h]) \subseteq w.met
      BY <2>10 DEF Rooted
    <3>5. new.met \subseteq FilesIn(new.branch)
      BY <2>1, <2>4, <3>2, <3>3, <3>4
    <3>6. \A h \in FilesIn(new.branch) : ToSet(lists[h]) \subseteq new.met
      BY <2>1, <2>4, <2>5, <3>2, <3>4
    <3> QED
      BY <3>5, <3>6
  <2>11. Rooted(lists, n, k + 1, new)
    BY <1>5, <2>6, <2>7, <2>8, <2>9, <2>10 DEF Rooted
  <2> QED
    BY <2>11 DEF new, g
<1> QED
  BY <1>8, <1>9

\* What an answer that is not partial must be.
WholeTree(tree, depth, results) ==
  /\ FilesIn(tree) \subseteq results
  /\ \A f \in results : PlacesOf(f, tree) <= IF f \in ToSet(FtRoots) THEN 2 ELSE 1
  /\ depth >= Cardinality(FtFiles) => FilesIn(tree) = results

LEMMA AtMostTwo ==
  /\ \A S, x : S \subseteq {x} => Cardinality(S) <= 1
  /\ \A S, x, y : S \subseteq {x, y} => Cardinality(S) <= 2
<1>1. ASSUME NEW S, NEW x, S \subseteq {x} PROVE Cardinality(S) <= 1
  <2>1. CASE S = {}
    <3>1. Cardinality(S) = 0
      BY <2>1, FS_EmptySet
    <3> QED
      BY <3>1
  <2>2. CASE S # {}
    <3>1. S = {x}
      BY <1>1, <2>2
    <3>2. Cardinality(S) = 1
      BY <3>1, FS_Singleton
    <3> QED
      BY <3>2
  <2> QED
    BY <2>1, <2>2
<1>2. ASSUME NEW S, NEW x, NEW y, S \subseteq {x, y} PROVE Cardinality(S) <= 2
  <2>1. IsFiniteSet({x}) /\ Cardinality({x}) = 1
    BY FS_Singleton
  <2>2. {x, y} = {x} \cup {y} /\ S \in SUBSET {x, y}
    BY <1>2
  <2>3. IsFiniteSet({x, y}) /\ Cardinality({x, y}) = IF y \in {x} THEN 1 ELSE 2
    BY <2>1, <2>2, FS_AddElement
  <2>4. IsFiniteSet(S) /\ Cardinality(S) <= Cardinality({x, y})
    BY <2>2, <2>3, FS_Subset
  <2>5. Cardinality(S) \in Nat
    BY <2>4, FS_CardinalityType
  <2> QED
    BY <2>3, <2>4, <2>5
<1> QED
  BY <1>1, <1>2

LEMMA TreeIsWhole ==
  ASSUME NEW depth \in Nat, NEW lists \in AllLists
  PROVE  WholeTree(BuildTree(depth, lists, {}), depth, Reached(lists, ToSet(FtRoots)))
<1> DEFINE process == ProcessFile(depth, lists, {})
           n == depth + 1
           g == TheRoots(process)
           P == {k \in Nat : k <= Len(FtRoots) => Rooted(lists, n, k, g[k])}
<1>0. Len(FtRoots) \in Nat /\ n \in Nat \ {0}
  BY FtAssumption
<1>1. Builds(lists, n, process)
  BY LevelsBuild
<1> HIDE DEF process
<1>2. RootsAre(g, process)
  <2>1. process \in Processes
    BY <1>1 DEF Builds
  <2> QED
    BY <2>1, WalkOfRoots
<1> HIDE DEF g, n
<1>3. 0 \in P
  <2>1. g[0] = StartWalk({})
    BY <1>0, <1>2 DEF RootsAre
  <2> QED
    BY <2>1, RootedStart
<1>4. ASSUME NEW k \in P PROVE k + 1 \in P
  <2> SUFFICES ASSUME k + 1 <= Len(FtRoots) PROVE Rooted(lists, n, k + 1, g[k + 1])
    OBVIOUS
  <2>1. k + 1 \in 0 .. Len(FtRoots) /\ k + 1 # 0 /\ (k + 1) - 1 = k
        /\ k \in 0 .. Len(FtRoots) - 1 /\ k <= Len(FtRoots)
    BY <1>0
  <2>2. g[k + 1] = Enter(g[k], FtRoots[k + 1], process)
    BY <1>2, <2>1 DEF RootsAre
  <2>3. Rooted(lists, n, k, g[k])
    BY <2>1
  <2> QED
    BY <1>0, <1>1, <2>1, <2>2, <2>3, RootedEnter
<1>5. P = Nat
  <2>1. P \in SUBSET Nat
    OBVIOUS
  <2> HIDE DEF P
  <2> QED
    BY <1>3, <1>4, <2>1, AllNumbers
<1> DEFINE w == g[Len(FtRoots)]
           tree == BuildTree(depth, lists, {})
           results == Reached(lists, ToSet(FtRoots))
<1>6. Rooted(lists, n, Len(FtRoots), w)
  BY <1>0, <1>5
<1>7. tree = w.branch
  BY BuildTreeLast DEF g, process
<1> HIDE DEF w, tree, results
<1>8. w \in Walks /\ w.branch \in Trees /\ w.met \in SUBSET FtFiles
  BY <1>6 DEF Rooted, Walks
<1>9. FilesIn(tree) \subseteq results
  <2>1. Complies(lists, ToSet(FtRoots), FilesIn(tree))
    BY <1>6, <1>7 DEF Rooted
  <2>2. FilesIn(tree) \subseteq FtFiles
    BY <1>7, <1>8, FilesOfTree
  <2> QED
    BY <2>1, <2>2 DEF Complies, Reached, results
<1>10. ASSUME NEW f \in results
       PROVE  PlacesOf(f, tree) <= IF f \in ToSet(FtRoots) THEN 2 ELSE 1
  <2> DEFINE S == {p \in DOMAIN tree : Last(p) = f}
  <2>1. \A p \in S : p \in TreePaths /\ Last(p) = f /\ p[1] \in ToSet(FtRoots)
    BY <1>6, <1>7, <1>8, TreesAre DEF Rooted
  <2>2. ASSUME NEW p \in S, ~ (Len(p) > 1) PROVE p = <<f>> /\ f \in ToSet(FtRoots)
    <3>1. Len(p) = 1
      <4>1. Len(p) \in Nat \ {0}
        BY <2>1, PathLast
      <4>2. ~ (Len(p) > 1)
        BY <2>2
      <4>3. \A m \in Nat \ {0} : ~ (m > 1) => m = 1
        OBVIOUS
      <4> HIDE DEF S
      <4> QED
        BY <4>1, <4>2, <4>3, Zenon
    <3>2. p = <<p[1]>> /\ Last(p) = p[1]
      <4>1. p[1] \in FtFiles
        BY <2>1, PathLast
      <4> QED
        BY <2>1, <3>1, <4>1, PathOne
    <3> QED
      BY <2>1, <3>2
  <2>3. \A p, q \in S : Len(p) > 1 /\ Len(q) > 1 => p = q
    BY <1>6, <1>7 DEF Rooted
  <2>4. \E x : S \subseteq {x, <<f>>} /\ (f \notin ToSet(FtRoots) => S \subseteq {x})
    <3>1. CASE \E x \in S : Len(x) > 1
      <4>1. PICK x \in S : Len(x) > 1
        BY <3>1
      <4>2. \A p \in S : p = x \/ (p = <<f>> /\ f \in ToSet(FtRoots))
        BY <2>2, <2>3, <4>1
      <4> HIDE DEF S
      <4> QED
        BY <4>2
    <3>2. CASE \A x \in S : ~ (Len(x) > 1)
      <4>1. \A p \in S : p = <<f>> /\ f \in ToSet(FtRoots)
        BY <2>2, <3>2
      <4> HIDE DEF S
      <4> QED
        BY <4>1
    <3> QED
      BY <3>1, <3>2
  <2>5. PlacesOf(f, tree) = Cardinality(S)
    BY DEF PlacesOf
  <2> HIDE DEF S
  <2> QED
    BY <2>4, <2>5, AtMostTwo
<1>11. ASSUME depth >= Cardinality(FtFiles) PROVE FilesIn(tree) = results
  <2>1. n > Cardinality(FtFiles)
    <3>1. Cardinality(FtFiles) \in Nat
      BY FtAssumption, FS_CardinalityType
    <3> QED
      BY <1>11, <3>1 DEF n
  <2>2. /\ FilesIn(tree) \subseteq w.met /\ w.met \subseteq FilesIn(tree)
        /\ \A h \in FilesIn(tree) : ToSet(lists[h]) \subseteq w.met
    BY <1>6, <1>7, <2>1 DEF Rooted
  <2>3. ToSet(FtRoots) \subseteq w.met
    BY <1>6 DEF Rooted, ToSet
  <2>4. ClosedUnder(lists, w.met)
    BY <2>2 DEF ClosedUnder
  <2>5. results \subseteq w.met
    BY <1>8, <2>3, <2>4 DEF Reached, results
  <2> QED
    BY <1>9, <2>2, <2>5
<1>12. WholeTree(tree, depth, results)
  BY <1>9, <1>10, <1>11 DEF WholeTree
<1> QED
  BY <1>12 DEF tree, results


TreeShape ==
  /\ ftDepth \in Nat /\ ftDepth \in FtDepths \cup {0}
  /\ ftState \in {"none", "submitted", "completed"}
  /\ ftExtracted \in [FtFiles -> FtLists \cup {<<>>}]
  /\ ftResults \subseteq FtFiles /\ ftErrors \subseteq FtFiles
  /\ ftCache = {} \/ \E c : ftCache = {c}
  /\ ftAnswer.outcome \in {"none", "partial", "built", "cached", "raised"}

\* A tree that was built without a gap is whole for the files there were; if
\* nothing has been saved or deleted since, they are those that there are.
BuiltWhole(c) ==
  /\ c = [tree |-> c.tree, score |-> c.score, files |-> c.files, current |-> c.current]
  /\ c.files \subseteq FtFiles
  /\ WholeTree(c.tree, ftDepth, c.files)
  /\ c.current => ftState = "completed" /\ c.files = ThereAre

CachedWhole == \A c \in ftCache : BuiltWhole(c)
AnsweredWhole ==
  ftAnswer.outcome \in {"built", "cached"} =>
    /\ BuiltWhole(ftAnswer.of)
    /\ ftAnswer.outcome = "cached" => Cardinality(ftAnswer.of.files) >= Cardinality(ftResults)

TreeInv == TreeShape /\ CachedWhole /\ AnsweredWhole

LEMMA TreeInvTypes == TreeInv => FtTypeOK /\ TreeWhole
<1> SUFFICES ASSUME TreeInv PROVE FtTypeOK /\ TreeWhole
  OBVIOUS
<1>1. Cardinality(ftCache) <= 1
  <2>1. \E t : ftCache \subseteq {t}
    BY DEF TreeInv, TreeShape
  <2> QED
    BY <2>1, AtMostTwo
<1>2. TreeWhole
  BY DEF TreeInv, AnsweredWhole, BuiltWhole, WholeTree, TreeWhole
<1> QED
  BY <1>1, <1>2 DEF TreeInv, TreeShape, FtTypeOK

LEMMA NotAnswered ==
  ASSUME ftAnswer' = Unanswered
  PROVE  ftAnswer'.outcome = "none" /\ AnsweredWhole'
BY DEF Unanswered, AnsweredWhole

\* What has been outdated stays whole for the files that there were.
LEMMA OutdatedWhole ==
  ASSUME CachedWhole, ftDepth' = ftDepth, ftCache' = Outdated(ftCache)
  PROVE  CachedWhole'
<1> SUFFICES ASSUME NEW c \in ftCache PROVE BuiltWhole(Built(c.tree, c.score, c.files, FALSE))'
  BY DEF CachedWhole, Outdated
<1>1. BuiltWhole(c)
  BY DEF CachedWhole
<1> QED
  BY <1>1 DEF BuiltWhole, Built

LEMMA OneOutdated ==
  ASSUME ftCache = {} \/ \E c : ftCache = {c}
  PROVE  Outdated(ftCache) = {} \/ \E c : Outdated(ftCache) = {c}
<1>1. CASE ftCache = {}
  BY <1>1 DEF Outdated
<1>2. ASSUME NEW c, ftCache = {c} PROVE Outdated(ftCache) = {Built(c.tree, c.score, c.files, FALSE)}
  BY <1>2 DEF Outdated
<1> QED
  BY <1>1, <1>2

LEMMA TreeInvInit == FtInit => TreeInv
BY DEF FtInit, FtNoList, Unanswered, TreeInv, TreeShape, CachedWhole, AnsweredWhole

LEMMA TreeInvSubmit ==
  ASSUME TreeInv, NEW depth \in FtDepths, SubmitFiles(depth)
  PROVE  TreeInv'
<1>1. TreeShape' /\ AnsweredWhole'
  BY FtAssumption, NotAnswered DEF TreeInv, TreeShape, SubmitFiles
<1>2. ASSUME NEW c \in ftCache' PROVE BuiltWhole(c)'
  <2>1. c \in ftCache /\ ftDepth' = ftDepth /\ ftState # "completed"
    BY <1>2 DEF SubmitFiles
  <2>2. BuiltWhole(c)
    BY <2>1 DEF TreeInv, CachedWhole
  <2> QED
    BY <2>1, <2>2 DEF BuiltWhole
<1> QED
  BY <1>1, <1>2 DEF TreeInv, CachedWhole

LEMMA TreeInvComplete ==
  ASSUME TreeInv, NEW extracted \in [FtFiles -> FtLists],
         NEW results \in SUBSET FtFiles, NEW errors \in SUBSET FtFiles,
         Complete(extracted, results, errors)
  PROVE  TreeInv'
<1>1. TreeShape' /\ AnsweredWhole'
  BY NotAnswered DEF TreeInv, TreeShape, Complete
<1>2. ASSUME NEW c \in ftCache' PROVE BuiltWhole(c)'
  <2>1. c \in ftCache /\ ftDepth' = ftDepth /\ ftState # "completed"
    BY <1>2 DEF Complete
  <2>2. BuiltWhole(c)
    BY <2>1 DEF TreeInv, CachedWhole
  <2> QED
    BY <2>1, <2>2 DEF BuiltWhole
<1> QED
  BY <1>1, <1>2 DEF TreeInv, CachedWhole

LEMMA TreeInvSave ==
  ASSUME TreeInv, NEW f \in FtFiles, NEW list \in FtLists, SaveResult(f, list)
  PROVE  TreeInv'
<1>1. /\ UNCHANGED <<ftDepth, ftState, ftResults, ftErrors>> /\ ftAnswer' = Unanswered
      /\ ftExtracted' = [ftExtracted EXCEPT ![f] = list] /\ ftCache' = Outdated(ftCache)
  BY DEF SaveResult
<1>2. ftExtracted' \in [FtFiles -> FtLists \cup {<<>>}]
  BY <1>1 DEF TreeInv, TreeShape
<1>3. ftCache' = {} \/ \E c : ftCache' = {c}
  BY <1>1, OneOutdated DEF TreeInv, TreeShape
<1>4. AnsweredWhole' /\ ftAnswer'.outcome = "none"
  BY <1>1, NotAnswered
<1>5. CachedWhole'
  BY <1>1, OutdatedWhole DEF TreeInv
<1>6. TreeShape'
  BY <1>1, <1>2, <1>3, <1>4 DEF TreeInv, TreeShape
<1> QED
  BY <1>4, <1>5, <1>6 DEF TreeInv

LEMMA TreeInvDelete ==
  ASSUME TreeInv, NEW found \in BOOLEAN, Delete(found)
  PROVE  TreeInv'
<1>1. /\ ftDepth' = ftDepth /\ ftAnswer' = Unanswered /\ ftState' = "none"
      /\ ftExtracted' = FtNoList /\ ftResults' = {} /\ ftErrors' = {}
      /\ ftCache' = IF found THEN {} ELSE Outdated(ftCache)
  BY DEF Delete
<1>2. AnsweredWhole' /\ ftAnswer'.outcome = "none"
  BY <1>1, NotAnswered
<1>3. ftExtracted' \in [FtFiles -> FtLists \cup {<<>>}]
  BY <1>1 DEF FtNoList
<1>4. CachedWhole' /\ (ftCache' = {} \/ \E c : ftCache' = {c})
  <2>1. CASE found
    BY <1>1, <2>1 DEF CachedWhole
  <2>2. CASE ~ found
    <3>1. ftCache' = Outdated(ftCache)
      BY <1>1, <2>2
    <3> QED
      BY <1>1, <3>1, OutdatedWhole, OneOutdated DEF TreeInv, TreeShape
  <2> QED
    BY <2>1, <2>2
<1>5. TreeShape'
  BY <1>1, <1>2, <1>3, <1>4 DEF TreeInv, TreeShape
<1> QED
  BY <1>2, <1>4, <1>5 DEF TreeInv

LEMMA TreeInvFromCache ==
  ASSUME TreeInv, GetFromCache
  PROVE  TreeInv'
<1>1. PICK c \in ftCache : IsValid(c) /\ ftAnswer' = [outcome |-> "cached", of |-> c]
  BY DEF GetFromCache
<1>2. UNCHANGED <<ftDepth, ftState, ftExtracted, ftResults, ftErrors, ftCache>>
  BY DEF GetFromCache
<1>3. ftAnswer'.outcome = "cached" /\ ftAnswer'.of = c
  BY <1>1
<1>4. TreeShape' /\ CachedWhole'
  BY <1>2, <1>3 DEF TreeInv, TreeShape, CachedWhole, BuiltWhole, ThereAre
<1>5. BuiltWhole(c) /\ BuiltWhole(c)'
  BY <1>2 DEF TreeInv, CachedWhole, BuiltWhole, ThereAre
<1>6. Cardinality(c.files) >= Cardinality(ftResults)
  <2>1. /\ IsFiniteSet(c.files) /\ FilesIn(c.tree) \in SUBSET c.files
        /\ ftResults \in SUBSET FtFiles
    BY <1>5, FtAssumption, FS_Subset DEF BuiltWhole, WholeTree, TreeInv, TreeShape
  <2>2. /\ IsFiniteSet(FilesIn(c.tree)) /\ IsFiniteSet(ftResults)
        /\ Cardinality(FilesIn(c.tree)) <= Cardinality(c.files)
    BY <2>1, FtAssumption, FS_Subset
  <2>3. /\ Cardinality(FilesIn(c.tree)) \in Nat /\ Cardinality(c.files) \in Nat
        /\ Cardinality(ftResults) \in Nat
    BY <2>1, <2>2, FS_CardinalityType
  <2> QED
    BY <1>1, <2>2, <2>3 DEF IsValid
<1>7. AnsweredWhole'
  BY <1>2, <1>3, <1>5, <1>6 DEF AnsweredWhole
<1> QED
  BY <1>4, <1>7 DEF TreeInv

LEMMA TreeInvCreate ==
  ASSUME TreeInv, NEW gone, NEW forbidden, NEW lost, CreateTree(gone, forbidden, lost)
  PROVE  TreeInv'
<1> DEFINE listed == ftResults \cup ftErrors \cup ToSet(FtRoots)
           leftOut == (gone \cup forbidden) \cap listed
           lists == [f \in FtFiles |-> IF f \in lost THEN <<>> ELSE ftExtracted[f]]
           tree == BuildTree(ftDepth, lists, leftOut)
           raises == FilesIn(tree) \cap (gone \ listed) # {}
           partial == ftState # "completed" \/ leftOut # {} \/ lost # {}
           score == HighestScore(FilesIn(tree) \cap ftResults)
           built == Built(tree, score, ThereAre, TRUE)
<1>1. /\ ftCache' = IF raises \/ partial THEN ftCache ELSE {built}
      /\ ftAnswer' = IF raises THEN [Unanswered EXCEPT !.outcome = "raised"]
                     ELSE [outcome |-> IF partial THEN "partial" ELSE "built", of |-> built]
      /\ UNCHANGED <<ftDepth, ftState, ftExtracted, ftResults, ftErrors>>
  BY DEF CreateTree
<1>2. ASSUME ~ partial PROVE WholeTree(tree, ftDepth, ThereAre) /\ ftState = "completed"
  <2>1. leftOut = {} /\ lost = {} /\ ftState = "completed"
    BY <1>2
  <2>2. ftExtracted \in [FtFiles -> FtLists \cup {<<>>}] /\ ftDepth \in Nat
    BY DEF TreeInv, TreeShape
  <2>3. lists = ftExtracted
    BY <2>1, <2>2
  <2>4. ftExtracted \in AllLists
    <3>1. <<>> \in Seq(FtFiles) /\ FtLists \subseteq Seq(FtFiles)
      BY FtAssumption
    <3> QED
      BY <2>2, <3>1 DEF AllLists
  <2>5. tree = BuildTree(ftDepth, ftExtracted, {})
    BY <2>1, <2>3
  <2> HIDE DEF lists, leftOut, tree
  <2> QED
    BY <2>1, <2>2, <2>4, <2>5, TreeIsWhole DEF ThereAre
<1> HIDE DEF tree, lists, leftOut, raises, score
<1>3. UNCHANGED ThereAre /\ ThereAre \subseteq FtFiles
  BY <1>1 DEF ThereAre, Reached
<1>4. built = [tree |-> tree, score |-> score, files |-> ThereAre, current |-> TRUE]
  BY DEF Built
<1>5. PICK b : b = built
  OBVIOUS
<1> HIDE DEF built
<1>0. /\ b = [tree |-> b.tree, score |-> b.score, files |-> b.files, current |-> b.current]
      /\ b.tree = tree /\ b.files = ThereAre /\ b.current
  <2>1. b = [tree |-> tree, score |-> score, files |-> ThereAre, current |-> TRUE]
    BY <1>4, <1>5
  <2>2. b.tree = tree /\ b.score = score /\ b.files = ThereAre /\ b.current = TRUE
    BY <2>1
  <2> QED
    BY <2>1, <2>2
<1>9. ASSUME ~ partial PROVE BuiltWhole(b)'
  <2>1. WholeTree(tree, ftDepth, ThereAre) /\ ftState = "completed"
    BY <1>2, <1>9
  <2>2. WholeTree(b.tree, ftDepth, b.files)
    BY <1>0, <2>1
  <2> QED
    BY <1>0, <1>1, <1>3, <2>1, <2>2 DEF BuiltWhole
<1> HIDE DEF partial
<1>6. TreeShape'
  <2>1. ftAnswer'.outcome \in {"raised", "partial", "built"}
    BY <1>1 DEF Unanswered
  <2>2. ftCache' = {} \/ \E c : ftCache' = {c}
    BY <1>1 DEF TreeInv, TreeShape
  <2> QED
    BY <1>1, <2>1, <2>2 DEF TreeInv, TreeShape
<1>7. CachedWhole'
  <2>1. CASE raises \/ partial
    <3>1. ftCache' = ftCache
      BY <1>1, <2>1
    <3> QED
      BY <1>1, <1>3, <3>1 DEF TreeInv, CachedWhole, BuiltWhole
  <2>2. CASE ~ (raises \/ partial)
    <3>1. ftCache' = {b} /\ BuiltWhole(b)'
      BY <1>1, <1>5, <1>9, <2>2
    <3> QED
      BY <3>1 DEF CachedWhole
  <2> QED
    BY <2>1, <2>2
<1>8. AnsweredWhole'
  <2>1. CASE raises \/ partial
    <3>1. ftAnswer'.outcome \in {"raised", "partial"}
      BY <1>1, <2>1 DEF Unanswered
    <3> QED
      BY <3>1 DEF AnsweredWhole
  <2>2. CASE ~ (raises \/ partial)
    <3>1. ftAnswer'.outcome = "built" /\ ftAnswer'.of = b /\ BuiltWhole(b)'
      BY <1>1, <1>5, <1>9, <2>2
    <3> QED
      BY <3>1 DEF AnsweredWhole
  <2> QED
    BY <2>1, <2>2
<1> QED
  BY <1>6, <1>7, <1>8 DEF TreeInv

LEMMA TreeInvStep == TreeInv /\ [FtNext]_ftVars => TreeInv'
<1> SUFFICES ASSUME TreeInv, [FtNext]_ftVars PROVE TreeInv'
  OBVIOUS
<1>1. CASE UNCHANGED ftVars
  BY <1>1 DEF ftVars, TreeInv, TreeShape, CachedWhole, AnsweredWhole, BuiltWhole, ThereAre
<1>2. CASE \E depth \in FtDepths : SubmitFiles(depth)
  BY <1>2, TreeInvSubmit
<1>3. CASE \E extracted \in [FtFiles -> FtLists], results, errors \in SUBSET FtFiles :
             Complete(extracted, results, errors)
  BY <1>3, TreeInvComplete
<1>4. CASE \E f \in FtFiles, list \in FtLists : SaveResult(f, list)
  BY <1>4, TreeInvSave
<1>5. CASE \E found \in BOOLEAN : Delete(found)
  BY <1>5, TreeInvDelete
<1>6. CASE GetFromCache
  BY <1>6, TreeInvFromCache
<1>7. CASE CreateTree({}, {}, {})
  BY <1>7, TreeInvCreate
<1>8. CASE \E f \in FtFiles :
             CreateTree({f}, {}, {}) \/ CreateTree({}, {f}, {}) \/ CreateTree({}, {}, {f})
  BY <1>8, TreeInvCreate
<1> QED
  BY <1>1, <1>2, <1>3, <1>4, <1>5, <1>6, <1>7, <1>8 DEF FtNext

\* get_or_create_file_tree: a tree that is said to be complete holds only files
\* that there are, each in one place and once more at the top if it was submitted,
\* and all of them if the depth does not cut it, for any files, any lists of what
\* they extracted and any depth; from the cache it may be of an earlier day, but
\* not if fewer files were there than have results.
THEOREM TreesAreWhole == FtSpec => []TreeWhole
<1>1. FtInit => TreeInv
  BY TreeInvInit
<1>2. TreeInv /\ [FtNext]_ftVars => TreeInv'
  BY TreeInvStep
<1>3. TreeInv => TreeWhole
  BY TreeInvTypes
<1> QED
  BY <1>1, <1>2, <1>3, PTL DEF FtSpec

----------------------------------------------------------------------------
\* The types of all the machines together.

LEMMA ArcDocsFinite ==
  /\ Cardinality(ArcDocs) \in Nat
  /\ \A S \in SUBSET ArcDocs : IsFiniteSet(S) /\ Cardinality(S) \in Nat
                              /\ Cardinality(S) <= Cardinality(ArcDocs)
<1>1. IsFiniteSet(ArcDocs)
  BY ArcAssumption
<1> QED
  BY <1>1, FS_CardinalityType, FS_Subset

ArcCopies == [ArcDocs -> Versions]
ArcJobOK(job) ==
  /\ job \in ArcJobRecords /\ job.copy \in ArcCopies
  /\ job.max \in 0 .. Cardinality(ArcDocs) /\ job.copied \in 0 .. Cardinality(ArcDocs)
  /\ job.step = "copying" => job.copied + Cardinality(job.docs) <= Cardinality(ArcDocs)

\* What the invariant does not say already: what was copied and what is still to
\* copy are documents.
ArcRest ==
  /\ arcHot \in ArcCopies /\ arcArchive \in ArcCopies /\ arcSeen \in ArcCopies
  /\ arcLatest \in ArcCopies
  /\ arcSaves \in Versions
  /\ arcGap \subseteq ArcDocs
  /\ ArcJobOK(arcJob)

LEMMA ArcRestTypes == ArcInv /\ ArcRest => ArcTypeOK
<1> SUFFICES ASSUME ArcInv, ArcRest PROVE ArcTypeOK
  OBVIOUS
<1>1. arcErasing \subseteq ArcDocs /\ arcRead.step \in {"none", "first", "second", "missing"}
  BY DEF ArcInv, ArcShape
<1>2. arcJob.step \in ArcSteps /\ arcJob.docs \subseteq ArcDocs /\ arcJob.erase \in BOOLEAN
  BY DEF ArcRest, ArcJobOK, ArcJobRecords
<1> QED
  BY <1>1, <1>2 DEF ArcTypeOK, ArcRest, ArcJobOK, ArcCopies

LEMMA NothingCopied == NoCopy \in ArcCopies /\ ArcJobOK(NoJob)
<1>1. NoCopy \in ArcCopies
  BY ArcAssumption DEF NoCopy, ArcCopies, Versions
<1>2. NoJob.copy = NoCopy /\ NoJob.max = 0 /\ NoJob.copied = 0
  BY DEF NoJob
<1> QED
  BY <1>1, <1>2, NoJobRecord, ArcDocsFinite DEF ArcJobOK

LEMMA ArcRestInit == ArcInit => ArcRest
<1> SUFFICES ASSUME ArcInit PROVE ArcRest
  OBVIOUS
<1>1. 0 \in Versions
  BY ArcAssumption DEF Versions
<1> QED
  BY <1>1, NothingCopied DEF ArcInit, ArcRest

\* A job that only goes on.
LEMMA JobGoesOn ==
  ASSUME NEW job, ArcJobOK(job), NEW step \in ArcSteps, step # "copying"
  PROVE  ArcJobOK([job EXCEPT !.step = step])
BY DEF ArcJobOK, ArcJobRecords

LEMMA ArcRestStep == ArcInv /\ ArcRest /\ [ArcNext]_arcVars => ArcRest'
<1> SUFFICES ASSUME ArcInv, ArcRest, [ArcNext]_arcVars PROVE ArcRest'
  OBVIOUS
<1> USE DEF ArcRest
<1>15. ArcShape /\ OneKey
  BY DEF ArcInv
<1>0. 0 \in Versions
  BY ArcAssumption DEF Versions
<1>1. CASE UNCHANGED arcVars
  BY <1>1 DEF arcVars
<1>2. ASSUME NEW d \in ArcDocs, SaveHot(d) PROVE ArcRest'
  <2>1. arcSaves' \in Versions
    BY <1>2, ArcAssumption DEF SaveHot, Versions
  <2> QED
    BY <1>2, <2>1 DEF SaveHot, ArcCopies
<1>3. ASSUME NEW d \in ArcDocs, EraseHot(d) \/ EraseArchive(d) PROVE ArcRest'
  BY <1>0, <1>3 DEF EraseHot, EraseArchive, ArcCopies
<1>4. ASSUME NEW d \in ArcDocs, CopyOne(d) PROVE ArcRest'
  <2>1. arcJob \in ArcJobRecords /\ d \in arcJob.docs /\ arcJob.docs \in SUBSET ArcDocs
        /\ arcJob.copy \in ArcCopies
    BY <1>4 DEF CopyOne, ArcJobOK, ArcJobRecords
  <2>2. Cardinality(arcJob.docs \ {d}) = Cardinality(arcJob.docs) - 1
        /\ Cardinality(arcJob.docs) \in Nat /\ Cardinality(arcJob.docs) # 0
    BY <2>1, ArcDocsFinite, FS_RemoveElement, FS_EmptySet
  <2>3. arcJob.copied \in Nat /\ arcJob.copied + Cardinality(arcJob.docs) <= Cardinality(ArcDocs)
        /\ Cardinality(ArcDocs) \in Nat
    BY <1>4, ArcDocsFinite DEF CopyOne, ArcJobOK
  <2> DEFINE step == IF arcJob.docs # {d} THEN "copying" ELSE "deleting"
  <2>4. arcJob' = [arcJob EXCEPT !.docs = arcJob.docs \ {d}, !.copied = arcJob.copied + 1, !.step = step]
    BY <1>4 DEF CopyOne
  <2>5. step \in ArcSteps
    BY DEF ArcSteps
  <2>6. arcJob.copied + 1 \in 0 .. Cardinality(ArcDocs)
        /\ arcJob.copied + 1 + Cardinality(arcJob.docs \ {d}) <= Cardinality(ArcDocs)
    BY <2>2, <2>3
  <2> HIDE DEF step
  <2>7. /\ arcJob' \in ArcJobRecords /\ arcJob'.copy = arcJob.copy /\ arcJob'.max = arcJob.max
        /\ arcJob'.copied = arcJob.copied + 1 /\ arcJob'.docs = arcJob.docs \ {d}
    <3>1. arcJob.copied + 1 \in Int /\ arcJob.docs \ {d} \in SUBSET ArcDocs
      BY <2>1, <2>3
    <3> QED
      BY <2>1, <2>4, <2>5, <3>1 DEF ArcJobRecords
  <2>8. ArcJobOK(arcJob')
    BY <2>6, <2>7 DEF ArcJobOK
  <2> QED
    BY <1>4, <2>1, <2>8 DEF CopyOne, ArcCopies
<1>5. ASSUME NEW d \in ArcDocs, NEW deleteAfter \in BOOLEAN, NEW allowMissing \in BOOLEAN,
             StartArchive(d, deleteAfter, allowMissing)
      PROVE  ArcRest'
  <2>1. ArcJobOK(arcJob')
    BY <1>5, NothingCopied, ArcDocsFinite
       DEF StartArchive, StartJob, ArcJobOK, ArcJobRecords, ArcSteps, ArcCopies, Versions
  <2> QED
    BY <1>5, <2>1 DEF StartArchive
<1>6. CASE StartRead \/ ReadIndex \/ EndRead
  BY <1>6 DEF StartRead, ReadIndex, EndRead
<1>7. CASE ArchiveExists
  <2>1. ArcJobOK(arcJob')
    BY <1>7, JobGoesOn DEF ArchiveExists, GoOn, ArcSteps
  <2> QED
    BY <1>7, <2>1 DEF ArchiveExists
<1>8. CASE ArchiveGet
  <2>1. Key \in ArcDocs
    BY <1>8, <1>15, KeyInDocs DEF ArchiveGet
  <2>2. CASE arcJob' = [arcJob EXCEPT !.step = "save", !.copy[Key] = arcHot[Key]]
    <3>1. arcHot[Key] \in Versions /\ arcJob.copy \in ArcCopies /\ arcJob \in ArcJobRecords
      BY <2>1 DEF ArcCopies, ArcJobOK
    <3> DEFINE copy == [arcJob.copy EXCEPT ![Key] = arcHot[Key]]
    <3>2. copy \in ArcCopies
      BY <3>1 DEF ArcCopies
    <3>3. arcJob' = [arcJob EXCEPT !.step = "save", !.copy = copy]
      BY <2>2
    <3>4. copy \in [ArcDocs -> Nat]
      BY <3>2, ArcAssumption DEF ArcCopies, Versions
    <3> HIDE DEF copy
    <3>5. arcJob' \in ArcJobRecords /\ arcJob'.copy = copy /\ arcJob'.max = arcJob.max
          /\ arcJob'.copied = arcJob.copied /\ arcJob'.step = "save"
      BY <3>1, <3>3, <3>4 DEF ArcJobRecords, ArcSteps
    <3>6. ArcJobOK(arcJob')
      BY <3>2, <3>5 DEF ArcJobOK
    <3> QED
      BY <1>8, <3>6 DEF ArchiveGet
  <2>3. CASE arcJob' = [arcJob EXCEPT !.step = "delete"] \/ arcJob' = NoJob
    <3>1. ArcJobOK(arcJob')
      BY <2>3, JobGoesOn, NothingCopied DEF ArcSteps
    <3> QED
      BY <1>8, <3>1 DEF ArchiveGet
  <2> QED
    BY <1>8, <2>2, <2>3 DEF ArchiveGet, GoOn
<1>9. CASE ArchiveSave
  <2>1. ArcJobOK(arcJob')
    BY <1>9, JobGoesOn DEF ArchiveSave, GoOn, ArcSteps
  <2>2. Key \in ArcDocs
    BY <1>9, <1>15, KeyInDocs DEF ArchiveSave
  <2> QED
    BY <1>9, <2>1, <2>2 DEF ArchiveSave, ArcJobOK, ArcCopies
<1>10. CASE ArchiveDelete
  <2>1. Key \in ArcDocs
    BY <1>10, <1>15, KeyInDocs DEF ArchiveDelete
  <2> QED
    BY <1>0, <1>10, <2>1, NothingCopied DEF ArchiveDelete, ArcCopies
<1>11. ASSUME NEW max \in 1 .. Cardinality(ArcDocs), NEW deleteAfter \in BOOLEAN,
              StartArchiveByQuery(max, deleteAfter)
       PROVE  ArcRest'
  <2> DEFINE copy == [d \in ArcDocs |-> IF d \in Matched THEN arcSeen[d] ELSE 0]
  <2>1. copy \in ArcCopies /\ copy \in [ArcDocs -> Nat]
    BY <1>0, ArcAssumption DEF ArcCopies, Versions
  <2>2. Matched \in SUBSET ArcDocs
    BY DEF Matched
  <2>3. Cardinality(Matched) \in Nat /\ Cardinality(Matched) <= Cardinality(ArcDocs)
        /\ Cardinality(ArcDocs) \in Nat
    BY <2>2, ArcDocsFinite
  <2>4. arcJob' = [step |-> "copying", docs |-> Matched, erase |-> deleteAfter, copy |-> copy,
                   lenient |-> FALSE, max |-> max, copied |-> 0]
    BY <1>11 DEF StartArchiveByQuery, StartJob
  <2> HIDE DEF copy
  <2>5. ArcJobOK(arcJob')
    BY <2>1, <2>2, <2>3, <2>4 DEF ArcJobOK, ArcJobRecords, ArcSteps
  <2> QED
    BY <1>11, <2>5 DEF StartArchiveByQuery
<1>12. CASE CopyFails
  <2>1. ArcJobOK(arcJob')
    BY <1>12, JobGoesOn, NothingCopied DEF CopyFails, GoOn, ArcSteps
  <2>2. arcJob.docs \subseteq ArcDocs
    BY DEF ArcJobOK, ArcJobRecords
  <2> QED
    BY <1>12, <2>1, <2>2 DEF CopyFails
<1>13. ASSUME NEW S \in SUBSET ArcDocs, DeleteMatched(S) PROVE ArcRest'
  <2>1. ArcJobOK(arcJob')
    BY <1>13, NothingCopied DEF DeleteMatched
  <2> QED
    BY <1>0, <1>13, <2>1 DEF DeleteMatched, ArcCopies
<1>14. CASE KeepMatched \/ Refresh
  BY <1>14, NothingCopied DEF KeepMatched, Refresh
<1> QED
  BY <1>1, <1>2, <1>3, <1>4, <1>5, <1>6, <1>7, <1>8, <1>9, <1>10, <1>11, <1>12, <1>13, <1>14
     DEF ArcNext

\* What the invariant of the transports does not say already.
FsRest ==
  /\ fsFile \in [Transports -> Contents \cup {0}]
  /\ fsDone \in [FsClients -> Contents \cup {0, AnyContent}]
  /\ fsBroken \subseteq FsLocal
  /\ \A c \in FsClients : fsCall[c].content \in Contents \cup {0}

LEMMA FsRestTypes == FsInv /\ FsRest => FsTypeOK
<1> SUFFICES ASSUME FsInv, FsRest PROVE FsTypeOK
  OBVIOUS
<1>1. fsWhole \in [Transports -> BOOLEAN] /\ FsCount \in Nat /\ Transports \subseteq 0 .. FsCount
  BY FsAssumption DEF FsInv, FsShape, Transports
<1>2. ASSUME NEW c \in FsClients
      PROVE  /\ fsCall[c].op \in {"none", "put", "delete"}
             /\ fsCall[c].at \in 0 .. FsCount
             /\ fsCall[c].step \in {"none", "check", "write", "verify"}
  <2>1. fsCall[c] \in FsCallRecords
    BY DEF FsInv, FsShape
  <2>2. fsCall[c].op \in {"none", "put", "delete"}
        /\ fsCall[c].step \in {"none", "check", "write", "verify"}
    BY <2>1 DEF FsCallRecords
  <2>3. CASE fsCall[c].op = "none"
    <3>1. fsCall[c].at = 0
      BY <2>3 DEF FsInv, FsShape, Resting
    <3> QED
      BY <1>1, <2>2, <3>1
  <2>4. CASE fsCall[c].op # "none"
    <3>1. fsCall[c].at \in Transports
      BY <2>2, <2>4 DEF FsInv, FsShape
    <3> QED
      BY <1>1, <2>2, <3>1
  <2> QED
    BY <2>3, <2>4
<1> QED
  BY <1>1, <1>2 DEF FsRest, FsTypeOK

LEMMA FsRestInit == FsInit => FsRest
BY DEF FsInit, FsRest, Resting

LEMMA FsRestStep == FsInv /\ FsRest /\ [FsNext]_fsVars => FsRest'
<1> SUFFICES ASSUME FsInv, FsRest, [FsNext]_fsVars PROVE FsRest'
  OBVIOUS
<1> USE DEF FsRest
<1>0. Resting.content = 0
  BY DEF Resting
<1>1. \A c \in FsClients : fsCall[c] \in FsCallRecords /\ DOMAIN fsCall = FsClients
  BY DEF FsInv, FsShape
<1>2. ASSUME NEW c \in FsClients, NEW call, call.content \in Contents \cup {0}, call \in FsCallRecords,
             FsStart(c, call), UNCHANGED <<fsFile, fsBroken>>
      PROVE  FsRest'
  <2>1. ASSUME NEW o \in FsClients PROVE fsCall'[o].content \in Contents \cup {0}
    <3>1. \/ fsCall'[o] = [call EXCEPT !.calm = \A x \in FsClients : ~ Clash(call, fsCall[x])]
          \/ fsCall'[o] = [fsCall[o] EXCEPT !.calm = FALSE]
          \/ fsCall'[o] = fsCall[o]
      BY <1>2 DEF FsStart
    <3>2. \A r \in FsCallRecords : \A b : [r EXCEPT !.calm = b].content = r.content
      BY DEF FsCallRecords
    <3> DEFINE calm == \A x \in FsClients : ~ Clash(call, fsCall[x])
    <3>3. [call EXCEPT !.calm = calm].content = call.content
          /\ [fsCall[o] EXCEPT !.calm = FALSE].content = fsCall[o].content
      <4>1. fsCall[o] \in FsCallRecords
        BY <1>1
      <4> HIDE DEF calm
      <4> QED
        BY <1>2, <3>2, <4>1
    <3> QED
      BY <1>2, <3>1, <3>3
  <2>2. fsDone' \in [FsClients -> Contents \cup {0, AnyContent}]
    BY <1>2 DEF FsStart
  <2> QED
    BY <1>2, <2>1, <2>2
<1>3. ASSUME NEW c \in FsClients, NEW content \in Contents, NEW force \in BOOLEAN,
             StartPut(c, content, force)
      PROVE  FsRest'
  <2> DEFINE call == [Resting EXCEPT !.op = "put", !.at = 1, !.step = "check",
                                     !.content = content, !.force = force]
  <2>1. FsStart(c, call) /\ UNCHANGED <<fsFile, fsBroken>>
    BY <1>3 DEF StartPut
  <2>2. call \in FsCallRecords /\ call.content = content
    <3> DEFINE first == [Resting EXCEPT !.op = "put", !.at = 1]
               second == [first EXCEPT !.step = "check"]
               third == [second EXCEPT !.content = content]
    <3>1. first \in FsCallRecords
      BY DEF Resting, FsCallRecords
    <3>2. call = [third EXCEPT !.force = force]
      BY SMT
    <3> HIDE DEF first, call
    <3>3. second \in FsCallRecords
      BY <3>1 DEF FsCallRecords
    <3> HIDE DEF second
    <3>4. third \in FsCallRecords /\ third.content = content
      BY <3>3 DEF FsCallRecords, Contents
    <3> HIDE DEF third
    <3> QED
      BY <3>2, <3>4 DEF FsCallRecords
  <2> HIDE DEF call
  <2> QED
    BY <1>2, <2>1, <2>2
<1>4. ASSUME NEW c \in FsClients, StartDelete(c) PROVE FsRest'
  <2> DEFINE call == [Resting EXCEPT !.op = "delete", !.at = 1]
  <2>1. FsStart(c, call) /\ UNCHANGED <<fsFile, fsBroken>>
    BY <1>4 DEF StartDelete
  <2>2. call \in FsCallRecords /\ call.content = 0
    BY DEF Resting, FsCallRecords
  <2> HIDE DEF call
  <2> QED
    BY <1>2, <2>1, <2>2
<1>5. ASSUME NEW c \in FsClients, NEW new, new.content \in Contents \cup {0},
             fsCall' = [fsCall EXCEPT ![c] = new]
      PROVE  \A o \in FsClients : fsCall'[o].content \in Contents \cup {0}
  BY <1>1, <1>5
<1>6. ASSUME NEW c \in FsClients, NEW step, Advance(c, step, Resting)
      PROVE  \A o \in FsClients : fsCall'[o].content \in Contents \cup {0}
  <2> DEFINE new == IF fsCall[c].at < FsCount THEN [fsCall[c] EXCEPT !.at = @ + 1, !.step = step]
                    ELSE Resting
  <2>1. fsCall' = [fsCall EXCEPT ![c] = new]
    BY <1>6 DEF Advance
  <2>2. new.content \in Contents \cup {0}
    <3>1. [fsCall[c] EXCEPT !.at = @ + 1, !.step = step].content = fsCall[c].content
      BY <1>1 DEF FsCallRecords
    <3> QED
      BY <1>0, <3>1
  <2> HIDE DEF new
  <2> QED
    BY <1>5, <2>1, <2>2
<1>7. ASSUME NEW c \in FsClients PROVE LeftBehind(fsCall[c]) \in Contents \cup {0, AnyContent}
  BY DEF LeftBehind
<1>8. ASSUME NEW c \in FsClients, fsCall[c].op = "put" PROVE fsCall[c].at \in Transports
  BY <1>8 DEF FsInv, FsShape
<1>9. ASSUME NEW c \in FsClients, PutReturns(c)
      PROVE  fsDone' \in [FsClients -> Contents \cup {0, AnyContent}]
  BY <1>7, <1>9 DEF PutReturns
<1>10. ASSUME NEW c \in FsClients, Skip(c) PROVE FsRest'
  BY <1>6, <1>9, <1>10 DEF Skip
<1>11. ASSUME NEW c \in FsClients, NEW step
       PROVE  [fsCall[c] EXCEPT !.step = step].content \in Contents \cup {0}
  <2>1. [fsCall[c] EXCEPT !.step = step].content = fsCall[c].content
    BY <1>1 DEF FsCallRecords
  <2> QED
    BY <2>1
<1>12. ASSUME NEW c \in FsClients, WriteTemporary(c) PROVE FsRest'
  <2>1. \A o \in FsClients : fsCall'[o].content \in Contents \cup {0}
    BY <1>5, <1>11, <1>12 DEF WriteTemporary
  <2> QED
    BY <1>12, <2>1 DEF WriteTemporary
<1>13. ASSUME NEW c \in FsClients, Rename(c) PROVE FsRest'
  <2>1. \A o \in FsClients : fsCall'[o].content \in Contents \cup {0}
    BY <1>5, <1>11, <1>13 DEF Rename
  <2>2. fsFile' \in [Transports -> Contents \cup {0}]
    BY <1>8, <1>13 DEF Rename, InPut
  <2> QED
    BY <1>13, <2>1, <2>2 DEF Rename
<1>14. ASSUME NEW c \in FsClients, Verify(c) PROVE FsRest'
  <2>1. CASE PutReturns(c) /\ Advance(c, "check", Resting)
    BY <1>6, <1>9, <1>14, <2>1 DEF Verify
  <2>2. CASE fsCall' = [fsCall EXCEPT ![c] = Resting] /\ UNCHANGED fsDone
    BY <1>0, <1>5, <1>14, <2>2 DEF Verify
  <2> QED
    BY <1>14, <2>1, <2>2 DEF Verify
<1>15. ASSUME NEW c \in FsClients, PutRaises(c) PROVE FsRest'
  <2>1. \A o \in FsClients : fsCall'[o].content \in Contents \cup {0}
    BY <1>0, <1>5, <1>15 DEF PutRaises
  <2>2. fsFile' \in [Transports -> Contents \cup {0}] /\ fsBroken' \subseteq FsLocal
    BY <1>8, <1>15 DEF PutRaises
  <2> QED
    BY <1>15, <2>1, <2>2 DEF PutRaises
<1>16. ASSUME NEW c \in FsClients, NEW fails \in BOOLEAN, DeleteAt(c, fails) PROVE FsRest'
  <2>1. \A o \in FsClients : fsCall'[o].content \in Contents \cup {0}
    BY <1>6, <1>16 DEF DeleteAt
  <2>2. fsFile' \in [Transports -> Contents \cup {0}]
    BY <1>16 DEF DeleteAt
  <2> QED
    BY <1>16, <2>1, <2>2 DEF DeleteAt
<1>17. CASE UNCHANGED fsVars
  BY <1>17 DEF fsVars
<1> QED
  BY <1>3, <1>4, <1>10, <1>12, <1>13, <1>14, <1>15, <1>16, <1>17 DEF FsNext

\* What the invariant of the pages does not say already.
PagesRest ==
  /\ pgChanges \in 0 .. MaxPgChanges
  /\ pgMode \in {"none", "search", "scan"} /\ pgSize \in PgRows \cup {0}
  /\ pgStep \in {"new", "open", "closed", "failed"}

LEMMA PagesRestStep ==
  /\ PgInit => PagesRest
  /\ PagesRest /\ [PgNext]_pgVars => PagesRest'
  /\ PagesInv /\ PagesRest => PgTypeOK
<1>1. PgInit => PagesRest
  BY PgAssumption DEF PgInit, PagesRest
<1>2. ASSUME PagesRest, [PgNext]_pgVars PROVE PagesRest'
  <2> USE <1>2 DEF PagesRest
  <2>1. ASSUME NEW d \in PgDocs, ChangeIndex(d) PROVE PagesRest'
    BY <2>1, PgAssumption DEF ChangeIndex
  <2>2. ASSUME NEW mode \in {"search", "scan"}, NEW size \in PgRows, OpenPit(mode, size)
        PROVE  PagesRest'
    BY <2>2 DEF OpenPit
  <2>3. CASE NextPage
    BY <2>3 DEF NextPage
  <2>4. CASE PitExpires
    BY <2>4 DEF PitExpires
  <2>5. CASE UNCHANGED pgVars
    BY <2>5 DEF pgVars
  <2> QED
    BY <2>1, <2>2, <2>3, <2>4, <2>5 DEF PgNext
<1>3. PagesInv /\ PagesRest => PgTypeOK
  BY DEF PagesInv, PagesRest, PgTypeOK
<1> QED
  BY <1>1, <1>2, <1>3

\* All the machines together: what runs takes its step, what rests keeps its
\* state.
StorageInv ==
  /\ part \in Parts
  /\ BaseInv
  /\ ArcInv /\ ArcRest
  /\ FsInv /\ FsRest
  /\ PagesInv /\ PagesRest
  /\ TreeInv /\ RangesInv /\ CmTypeOK

LEMMA StorageInvTypes == StorageInv => StorageTypeOK
<1> SUFFICES ASSUME StorageInv PROVE StorageTypeOK
  OBVIOUS
<1>1. TypeOK
  BY DEF StorageInv, BaseInv
<1>2. ArcTypeOK
  BY ArcRestTypes DEF StorageInv
<1>3. FsTypeOK
  BY FsRestTypes DEF StorageInv
<1>4. PgTypeOK
  BY PagesRestStep DEF StorageInv
<1>5. FtTypeOK
  BY TreeInvTypes DEF StorageInv
<1>6. RtTypeOK
  BY TrieShape DEF StorageInv, RangesInv, RtTypeOK
<1>7. CmTypeOK
  BY DEF StorageInv
<1>8. part \in Parts
  BY DEF StorageInv
<1> QED
  BY <1>1, <1>2, <1>3, <1>4, <1>5, <1>6, <1>7, <1>8 DEF StorageTypeOK, Parts

LEMMA StorageInvInit == StorageInit => StorageInv
BY BaseInit, ArcInvInit, ArcRestInit, FsInvInit, FsRestInit, PagesInit, PagesRestStep,
   TreeInvInit, RangesStart, CmTypesInit
   DEF StorageInit, StorageInv

LEMMA StorageSteps ==
  ASSUME [StorageNext]_storageVars
  PROVE  /\ [Next]_vars /\ [ArcNext]_arcVars /\ [FsNext]_fsVars /\ [PgNext]_pgVars
         /\ [FtNext]_ftVars /\ [RtNext]_rtVars /\ [CmNext]_cmVars
         /\ part' = part
<1>1. CASE MaintenancePart
  BY <1>1 DEF MaintenancePart
<1>2. CASE ArchivePart
  BY <1>2 DEF ArchivePart, maintVars
<1>3. CASE TransportPart
  BY <1>3 DEF TransportPart, maintVars
<1>4. CASE PagingPart
  BY <1>4 DEF PagingPart, maintVars
<1>5. CASE TreePart
  BY <1>5 DEF TreePart, maintVars
<1>6. CASE RangePart
  BY <1>6 DEF RangePart, maintVars
<1>7. CASE MarkingPart
  BY <1>7 DEF MarkingPart, maintVars
<1>8. CASE AtRest \/ UNCHANGED storageVars
  <2>1. UNCHANGED storageVars
    BY <1>8 DEF AtRest
  <2> QED
    BY <2>1 DEF storageVars, maintVars
<1> QED
  BY <1>1, <1>2, <1>3, <1>4, <1>5, <1>6, <1>7, <1>8 DEF StorageNext

LEMMA StorageInvStep == StorageInv /\ [StorageNext]_storageVars => StorageInv'
<1> SUFFICES ASSUME StorageInv, [StorageNext]_storageVars PROVE StorageInv'
  OBVIOUS
<1>1. part' \in Parts
  BY StorageSteps DEF StorageInv
<1>2. BaseInv'
  BY StorageSteps, BaseStep DEF StorageInv
<1>3. ArcInv' /\ ArcRest'
  BY StorageSteps, ArcInvStep, ArcRestStep DEF StorageInv
<1>4. FsInv' /\ FsRest'
  BY StorageSteps, FsInvStep, FsRestStep DEF StorageInv
<1>5. PagesInv' /\ PagesRest'
  BY StorageSteps, PagesInvStep, PagesRestStep DEF StorageInv
<1>6. TreeInv'
  BY StorageSteps, TreeInvStep DEF StorageInv
<1>7. RangesInv'
  BY StorageSteps, RangesKept DEF StorageInv
<1>8. CmTypeOK'
  BY StorageSteps, CmTypesStep DEF StorageInv
<1> QED
  BY <1>1, <1>2, <1>3, <1>4, <1>5, <1>6, <1>7, <1>8 DEF StorageInv

\* Each machine keeps its state within its types whichever of them runs, for
\* any constants the assumptions allow (collection.py, helper.py, the
\* transports, iprange.py and classification.py together).
THEOREM StorageTypesCorrect == StorageSpec => []StorageTypeOK
BY StorageInvInit, StorageInvStep, StorageInvTypes, PTL DEF StorageSpec
=============================================================================
