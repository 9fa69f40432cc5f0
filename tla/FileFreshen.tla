---------------------------- MODULE FileFreshen ----------------------------
(***************************************************************************)
(* The record of one file in the datastore while several processes         *)
(* freshen it: AssemblylineDatastore.save_or_freshen_file                  *)
(* (src/assemblyline/datastore/helper.py) on top of ESCollection._get,     *)
(* update and save (datastore/collection.py) and ESStore.with_retries      *)
(* (datastore/store.py).                                                   *)
(*                                                                         *)
(* A call reads the record with its sequence number.  When the record      *)
(* already is at the least restrictive of both classifications the call    *)
(* sends a scripted update, otherwise it sends back the whole record       *)
(* conditioned on the sequence number it read, and starts over when        *)
(* Elasticsearch answers with a version conflict.  A request that times    *)
(* out is sent again, while the first one may still be executed.           *)
(***************************************************************************)
EXTENDS Naturals, FiniteSets

CONSTANTS
  Calls,          \* the calls of save_or_freshen_file, one per process
  Archivists,     \* the calls made on a datastore opened with archive_access
  Markings,       \* what a classification restricts: levels, tokens, groups
  CallExpiries,   \* the expiry arguments of the calls
  Never,          \* the expiry None: the record does not expire
  Absent,         \* no document under this key
  Archived,       \* TRUE when the file was moved to the archive before
  ArchiveVer,     \* the sequence number of the archived document
  MaxResends,     \* bound: ConnectionTimeout retries per call
  MaxDeletes      \* bound: deletions of the record by other components

(***************************************************************************)
(* A classification is the set of markings a reader must hold.  The least  *)
(* restrictive form of two, Classification.min_classification, is their    *)
(* intersection.                                                           *)
(***************************************************************************)
Class      == SUBSET Markings
Expiry     == Nat \cup {Never}
FileRecord == [count: Nat, cls: Class, exp: Expiry, img: BOOLEAN]
Entry      == [count: Nat, cls: Class, exp: Expiry]
Input      == [cls: Class, exp: CallExpiries, img: BOOLEAN]

\* CREATE_TOKEN; Elasticsearch numbers the writes of an index from 1 here.
CREATE_TOKEN == 0

ASSUME FreshenAssumption ==
  /\ Archivists \subseteq Calls
  /\ CallExpiries \subseteq Expiry
  /\ Never \notin Nat
  /\ Absent \notin FileRecord \cup Entry
  /\ Archived \in BOOLEAN
  /\ ArchiveVer \in Nat \ {CREATE_TOKEN}
  /\ MaxResends \in Nat
  /\ MaxDeletes \in Nat

\* A write request on its way to Elasticsearch.
Request == [call: Calls, try: Nat, kind: {"update", "save"},
            rec: FileRecord \cup {Absent}, ver: Nat]

VARIABLES
  hot,        \* the document in the hot index
  hotVer,     \* its _seq_no
  seqNo,      \* the last sequence number of the hot index
  arch,       \* the document in the archive index
  input,      \* the arguments of each call
  pc,         \* where each call is
  want,       \* its local variable classification
  base,       \* its local variable current_fileinfo, as read
  baseVer,    \* its local variable version
  resends,    \* how often with_retries has sent its request again
  wire,       \* the write requests Elasticsearch has not executed
  deletes,    \* how often the record was deleted
  counted     \* the requests <<call, try>> counted in the hot document
              \* (history: no variable of the program)

docVars  == <<hot, hotVer, seqNo, counted>>
callVars == <<pc, want, base, baseVer, resends>>
vars     == <<hot, hotVer, seqNo, arch, input, pc, want, base, baseVer,
              resends, wire, deletes, counted>>
-----------------------------------------------------------------------------
\* max(current_expiry, expiry), or None as soon as one of the two is None.
\* (Fault: the record being saved keeps its old expiry.)
LaterExpiryKeepsOld(old, new) == old
LaterExpiry(old, new) ==
  IF old = Never \/ new = Never THEN Never
  ELSE IF old < new THEN new ELSE old

\* The script of UPDATE_MAX, which is left out when the argument is None.
UpdateMax(old, new) ==
  IF new = Never THEN old
  ELSE IF old = Never \/ old < new THEN new ELSE old

\* The record a call builds from the one it read, at classification w.
Freshened(rec, in, w) ==
  IF rec = Absent
  THEN [count |-> 1, cls |-> w, exp |-> in.exp, img |-> in.img]
  ELSE [count |-> rec.count + 1, cls |-> w,
        exp |-> LaterExpiry(rec.exp, in.exp), img |-> rec.img \/ in.img]

\* The effect of the scripted update on the stored record.
Updated(rec, in) ==
  [rec EXCEPT !.count = @ + 1, !.exp = UpdateMax(@, in.exp)]

UpdateRequest(c) ==
  [call |-> c, try |-> resends[c], kind |-> "update",
   rec |-> Absent, ver |-> CREATE_TOKEN]

SaveRequest(c, rec, ver, w) ==
  [call |-> c, try |-> resends[c], kind |-> "save",
   rec |-> Freshened(rec, input[c], w), ver |-> ver]

\* The call still waits for the answer to this request.
Current(r) == pc[r.call] = r.kind /\ resends[r.call] = r.try

Requests(c) == {r \in wire : r.call = c /\ Current(r)}
-----------------------------------------------------------------------------
Init ==
  /\ hot = Absent /\ hotVer = CREATE_TOKEN /\ seqNo = 0
  /\ arch \in IF Archived
              THEN [count: {1}, cls: Class, exp: {Never}, img: {FALSE}]
              ELSE {Absent}
  /\ input \in [Calls -> Input]
  /\ pc = [c \in Calls |-> "get"]
  /\ want = [c \in Calls |-> input[c].cls]
  /\ base = [c \in Calls |-> Absent]
  /\ baseVer = [c \in Calls |-> CREATE_TOKEN]
  /\ resends = [c \in Calls |-> 0]
  /\ wire = {} /\ deletes = 0 /\ counted = {}

(***************************************************************************)
(* get_if_exists looks into the hot index, then into the archive when the  *)
(* datastore has access to it.  The archived document does not change, so  *)
(* both reads are one step taken when the hot index answers.  The request  *)
(* the call makes of what it read leaves in the same step.                 *)
(***************************************************************************)
\* (Fault: no sequence number comes with a document that was found.)
FoundVerMissing(c) == CREATE_TOKEN
FoundRec(c) == IF hot = Absent /\ c \in Archivists THEN arch ELSE hot
FoundVer(c) == IF FoundRec(c) = Absent THEN CREATE_TOKEN
               ELSE IF hot = Absent THEN ArchiveVer ELSE hotVer

\* The least restrictive of the call's classification and the record's.
\* (Fault: the call's classification replaces the record's.)
OwnClass(w, rec) == w
LeastClass(w, rec) == IF rec = Absent THEN w ELSE w \cap rec.cls

\* "The freshen we are doing won't change classification."
\* (Fault: any record that exists is updated in place.)
AnyRecord(w, rec) == rec # Absent
SameClass(w, rec) == rec # Absent /\ w = rec.cls

Get(c) ==
  LET rec == FoundRec(c)
      ver == FoundVer(c)
      w   == LeastClass(want[c], rec)
      upd == SameClass(w, rec)
  IN /\ pc[c] = "get"
     /\ base' = [base EXCEPT ![c] = rec]
     /\ baseVer' = [baseVer EXCEPT ![c] = ver]
     /\ want' = [want EXCEPT ![c] = w]
     /\ pc' = [pc EXCEPT ![c] = IF upd THEN "update" ELSE "save"]
     /\ wire' = wire \cup {IF upd THEN UpdateRequest(c)
                           ELSE SaveRequest(c, rec, ver, w)}
     /\ UNCHANGED <<docVars, arch, input, resends, deletes>>

\* An answer that arrives lets the call return, unless it was given up.
Return(r) == pc' = IF Current(r) THEN [pc EXCEPT ![r.call] = "done"] ELSE pc

\* Elasticsearch stores rec under the key and counts the request.
Store(rec, ids) ==
  /\ hot' = rec /\ hotVer' = seqNo + 1 /\ seqNo' = seqNo + 1
  /\ counted' = ids

\* The scripted update finds the document and is applied to it.
UpdateApplied(r) ==
  /\ r \in wire /\ r.kind = "update" /\ hot # Absent
  /\ Store(Updated(hot, input[r.call]), counted \cup {<<r.call, r.try>>})
  /\ wire' = wire \ {r}
  /\ Return(r)
  /\ UNCHANGED <<arch, input, want, base, baseVer, resends, deletes>>

\* update returned False: the call goes on with the record it read before.
\* (Fault: the call returns whatever update answered.)
ReturnAnyway(r) == Return(r) /\ wire' = wire \ {r}
FallBackToSave(r) ==
  LET c == r.call IN
  IF Current(r)
  THEN /\ pc' = [pc EXCEPT ![c] = "save"]
       /\ wire' = (wire \ {r})
                    \cup {SaveRequest(c, base[c], baseVer[c], want[c])}
  ELSE /\ wire' = wire \ {r}
       /\ UNCHANGED pc

\* There is no document to update (NotFoundError).
UpdateMissing(r) ==
  /\ r \in wire /\ r.kind = "update" /\ hot = Absent
  /\ FallBackToSave(r)
  /\ UNCHANGED <<docVars, arch, input, want, base, baseVer, resends, deletes>>

\* The update is refused with another error, which update swallows.
UpdateRefused(r) ==
  /\ r \in wire /\ r.kind = "update" /\ Current(r)
  /\ FallBackToSave(r)
  /\ UNCHANGED <<docVars, arch, input, want, base, baseVer, resends, deletes>>

\* op_type=create needs no document, if_seq_no the very one that was read.
\* (Fault: the record is created without op_type=create.)
CreateOverwrites(r) == r.ver = CREATE_TOKEN \/ hotVer = r.ver
VersionMatches(r) ==
  IF r.ver = CREATE_TOKEN THEN hot = Absent
  ELSE hot # Absent /\ hotVer = r.ver

SaveAccepted(r) ==
  /\ r \in wire /\ r.kind = "save" /\ VersionMatches(r)
  /\ Store(r.rec, counted \cup {<<r.call, r.try>>})
  /\ wire' = wire \ {r}
  /\ Return(r)
  /\ UNCHANGED <<arch, input, want, base, baseVer, resends, deletes>>

\* VersionConflictException: the call reads the record again.
SaveConflict(r) ==
  /\ r \in wire /\ r.kind = "save" /\ ~VersionMatches(r)
  /\ wire' = wire \ {r}
  /\ pc' = IF Current(r) THEN [pc EXCEPT ![r.call] = "get"] ELSE pc
  /\ UNCHANGED <<docVars, arch, input, want, base, baseVer, resends, deletes>>

(***************************************************************************)
(* with_retries: ConnectionTimeout.  The request is sent again; the first  *)
(* copy stays on the wire and may be executed at any later time, or never. *)
(* A request that was executed before the client gave up is the same       *)
(* behaviour, as the answer is lost in both cases.                         *)
(***************************************************************************)
Resend(c) ==
  /\ resends[c] < MaxResends
  /\ resends' = [resends EXCEPT ![c] = @ + 1]
  /\ \E r \in Requests(c) : wire' = wire \cup {[r EXCEPT !.try = @ + 1]}
  /\ UNCHANGED <<docVars, arch, input, pc, want, base, baseVer, deletes>>

\* Another component deletes the record: expiry, or a deleted submission.
Delete ==
  /\ hot # Absent /\ deletes < MaxDeletes
  /\ deletes' = deletes + 1
  /\ hot' = Absent /\ hotVer' = CREATE_TOKEN /\ seqNo' = seqNo + 1
  /\ counted' = {}
  /\ UNCHANGED <<arch, input, callVars, wire>>

Execute(r) == \/ UpdateApplied(r) \/ UpdateMissing(r) \/ UpdateRefused(r)
              \/ SaveAccepted(r) \/ SaveConflict(r)

AllDone == (\A c \in Calls : pc[c] = "done") /\ UNCHANGED vars

Next == \/ \E c \in Calls : Get(c) \/ Resend(c)
        \/ \E r \in wire : Execute(r)
        \/ Delete
        \/ AllDone

Spec == Init /\ [][Next]_vars

(***************************************************************************)
(* A call that runs keeps going, and Elasticsearch executes the request    *)
(* the call waits for (a client that gives up sends it again).  Nothing is *)
(* assumed of requests given up, of resends or of deletions.               *)
(***************************************************************************)
ExecuteCurrent(c) == \E r \in Requests(c) : Execute(r)

FairSpec == Spec /\ \A c \in Calls : WF_vars(Get(c)) /\ WF_vars(ExecuteCurrent(c))
-----------------------------------------------------------------------------
TypeOK ==
  /\ hot \in FileRecord \cup {Absent} /\ hotVer \in Nat /\ seqNo \in Nat
  /\ arch \in FileRecord \cup {Absent}
  /\ input \in [Calls -> Input]
  /\ pc \in [Calls -> {"get", "update", "save", "done"}]
  /\ want \in [Calls -> Class]
  /\ base \in [Calls -> FileRecord \cup {Absent}]
  /\ baseVer \in [Calls -> Nat]
  /\ resends \in [Calls -> Nat]
  /\ wire \subseteq Request
  /\ deletes \in Nat
  /\ counted \subseteq Calls \X Nat

Done == {c \in Calls : pc[c] = "done"}

(***************************************************************************)
(* seen.count is the number of requests that reached this record: a read-  *)
(* modify-write of one call never wipes out the increment of another.      *)
(***************************************************************************)
CountIsSightings == hot # Absent => hot.count = Cardinality(counted)

(***************************************************************************)
(* A call that returned was counted in the record, whatever it raced with, *)
(* unless the record has been deleted since.                               *)
(***************************************************************************)
NoLostSighting ==
  deletes = 0 => \A c \in Done : \E i \in counted : i[1] = c

(***************************************************************************)
(* The record is as readable as its least restricted sighting, and not     *)
(* more: its classification is the intersection of those of the calls it   *)
(* counts.                                                                 *)
(***************************************************************************)
ClassificationIsLeast ==
  (deletes = 0 /\ hot # Absent)
    => hot.cls = {m \in Markings : \A i \in counted : m \in input[i[1]].cls}

\* While a record exists no step lowers its count or restricts it further.
FreshenMonotone ==
  [][hot # Absent /\ hot' # Absent
       => hot'.count >= hot.count /\ hot'.cls \subseteq hot.cls]_vars

\* Every call returns, however the others and the deletions interleave.
EveryCallReturns == \A c \in Calls : <>(pc[c] = "done")
-----------------------------------------------------------------------------
(***************************************************************************)
(* While nothing deletes the record and every expiry is a date, the calls  *)
(* implement the atomic ledger of sightings.                               *)
(***************************************************************************)
LedgerEntry(rec) ==
  IF rec = Absent THEN Absent
  ELSE [count |-> rec.count, cls |-> rec.cls, exp |-> rec.exp]

Ledger == INSTANCE FileLedger WITH
  input    <- [c \in Calls |-> [cls |-> input[c].cls, exp |-> input[c].exp]],
  record   <- LedgerEntry(hot),
  returned <- Done

LedgerSpec == Ledger!Spec
-----------------------------------------------------------------------------
(***************************************************************************)
(* Why the above holds when no archived copy interferes: requests are told *)
(* apart by call and try, and a save that will be accepted carries the     *)
(* stored record as it is now, freshened by its call.                      *)
(***************************************************************************)
SeqInv == hotVer <= seqNo /\ (hot = Absent <=> hotVer = CREATE_TOKEN)

WireInv ==
  \A r \in wire :
    /\ r.try <= resends[r.call]
    /\ r.try = resends[r.call] => pc[r.call] = r.kind
    /\ <<r.call, r.try>> \notin counted
    /\ \A s \in wire : s.call = r.call /\ s.try = r.try => s = r

CountedInv ==
  /\ IsFiniteSet(counted)
  /\ hot = Absent => counted = {}
  /\ \A i \in counted :
       i[2] <= resends[i[1]] /\ (i[2] = resends[i[1]] => pc[i[1]] = "done")

CreatesFirst(r) == \E w \in Class : r.rec = Freshened(Absent, input[r.call], w)
ReplacesHot(r)  == \E w \in SUBSET hot.cls : r.rec = Freshened(hot, input[r.call], w)

SaveInv ==
  \A r \in wire : r.kind = "save" =>
    /\ r.ver <= seqNo
    /\ r.ver = CREATE_TOKEN => CreatesFirst(r)
    /\ r.ver = hotVer /\ hot # Absent => ReplacesHot(r)

\* A call in "update" read a record; its version stands for that very record.
BaseInv ==
  \A c \in Calls : pc[c] = "update" =>
    /\ base[c] # Absent /\ want[c] = base[c].cls
    /\ baseVer[c] # CREATE_TOKEN /\ baseVer[c] <= seqNo
    /\ baseVer[c] = hotVer => base[c] = hot

\* The inductive invariant behind CountIsSightings and FreshenMonotone.
FreshenInv ==
  /\ arch = Absent
  /\ SeqInv /\ WireInv /\ CountedInv /\ SaveInv /\ BaseInv
  /\ CountIsSightings

(***************************************************************************)
(* While nothing was deleted, what a call knows of the record's            *)
(* classification stays between what is stored and what it came with.      *)
(***************************************************************************)
MeetInv ==
  /\ \A c \in Calls :
       /\ want[c] \subseteq input[c].cls
       /\ hot = Absent => want[c] = input[c].cls /\ pc[c] # "update"
       /\ hot # Absent => hot.cls \cap input[c].cls \subseteq want[c]
       /\ pc[c] = "update" => hot.cls \subseteq want[c]
  /\ \A r \in wire :
       /\ r.kind = "update" => hot # Absent /\ hot.cls \subseteq input[r.call].cls
       /\ r.kind = "save" /\ VersionMatches(r) =>
            r.rec.cls = IF hot = Absent THEN input[r.call].cls
                        ELSE hot.cls \cap input[r.call].cls

\* The inductive invariant behind ClassificationIsLeast and LedgerSpec.
LedgerInv ==
  /\ deletes = 0 /\ MeetInv /\ ClassificationIsLeast
  /\ hot # Absent => hot.exp # Never
-----------------------------------------------------------------------------
(* What the code does not keep; see the README. *)

\* A record that never expires because of expiry None stays that way.
NullExpiryKept ==
  [][hot # Absent /\ hot' # Absent /\ hot.exp = Never => hot'.exp = Never]_vars

\* A record counting a call with is_section_image says that it is one.
SectionImageRecorded ==
  hot # Absent => \A i \in counted : input[i[1]].img => hot.img

\* The scripted update is used only where it leaves nothing to reclassify.
UpdateNeedsNoReclassification ==
  hot # Absent => \A i \in counted : hot.cls \subseteq input[i[1]].cls
=============================================================================
