------------------------- MODULE FileFreshenProofs -------------------------
(***************************************************************************)
(* Proofs about FileFreshen, for any set of calls, markings and expiries,  *)
(* any number of timeouts and (where stated) of deletions.                 *)
(***************************************************************************)
EXTENDS FileFreshen, FiniteSetTheorems, TLAPS

(***************************************************************************)
(* The helpers stay within their types.                                    *)
(***************************************************************************)
LEMMA LaterExpiryType ==
  ASSUME NEW a \in Expiry, NEW b \in Expiry
  PROVE  LaterExpiry(a, b) \in Expiry /\ UpdateMax(a, b) \in Expiry
BY DEF LaterExpiry, UpdateMax, Expiry

LEMMA FreshenedType ==
  ASSUME NEW rec \in FileRecord \cup {Absent}, NEW in \in Input, NEW w \in Class
  PROVE  /\ Freshened(rec, in, w) \in FileRecord
         /\ Freshened(rec, in, w).cls = w
         /\ rec # Absent => Updated(rec, in) \in FileRecord
<1>1. in.cls \in Class /\ in.exp \in Expiry /\ in.img \in BOOLEAN
  BY FreshenAssumption DEF Input
<1>2. CASE rec = Absent
  BY <1>1, <1>2 DEF Freshened, FileRecord
<1>3. CASE rec \in FileRecord
  <2>1. /\ rec.count + 1 \in Nat
        /\ LaterExpiry(rec.exp, in.exp) \in Expiry
        /\ UpdateMax(rec.exp, in.exp) \in Expiry
        /\ (rec.img \/ in.img) \in BOOLEAN
    BY <1>1, <1>3, LaterExpiryType DEF FileRecord
  <2>2. rec # Absent
    BY <1>3, FreshenAssumption
  <2>3. /\ Freshened(rec, in, w) \in FileRecord
        /\ Freshened(rec, in, w).cls = w
    BY <2>1, <2>2 DEF Freshened, FileRecord
  <2>4. Updated(rec, in) \in FileRecord
    BY <2>1, <1>3 DEF Updated, FileRecord
  <2>. QED  BY <2>3, <2>4
<1>. QED  BY <1>2, <1>3

LEMMA RequestTypes ==
  ASSUME TypeOK, NEW c \in Calls,
         NEW rec \in FileRecord \cup {Absent}, NEW ver \in Nat, NEW w \in Class
  PROVE  /\ UpdateRequest(c) \in Request
         /\ SaveRequest(c, rec, ver, w) \in Request
<1>1. input[c] \in Input /\ resends[c] \in Nat
  BY DEF TypeOK
<1>2. Freshened(rec, input[c], w) \in FileRecord
  BY <1>1, FreshenedType
<1>. QED
  BY <1>1, <1>2 DEF UpdateRequest, SaveRequest, Request, CREATE_TOKEN

(***************************************************************************)
(* Type correctness.                                                       *)
(***************************************************************************)
LEMMA TypeInit == Init => TypeOK
<1>. SUFFICES ASSUME Init PROVE TypeOK
  OBVIOUS
<1>1. arch \in FileRecord \cup {Absent}
  <2>1. CASE Archived
    <3>1. PICK k \in Class :
            arch = [count |-> 1, cls |-> k, exp |-> Never, img |-> FALSE]
      BY <2>1 DEF Init
    <3>2. Never \in Expiry
      BY DEF Expiry
    <3>. QED
      BY <3>1, <3>2 DEF FileRecord
  <2>2. CASE ~Archived
    BY <2>2 DEF Init
  <2>. QED  BY <2>1, <2>2
<1>2. \A c \in Calls : input[c].cls \in Class
  BY DEF Init, Input
<1>. QED
  BY <1>1, <1>2 DEF Init, TypeOK, CREATE_TOKEN

LEMMA TypeGet ==
  ASSUME TypeOK, NEW c \in Calls, Get(c)
  PROVE  TypeOK'
<1>. DEFINE rec == FoundRec(c)
            ver == FoundVer(c)
            w   == LeastClass(want[c], rec)
            req == IF SameClass(w, rec) THEN UpdateRequest(c)
                   ELSE SaveRequest(c, rec, ver, w)
<1>1. rec \in FileRecord \cup {Absent} /\ ver \in Nat
  BY FreshenAssumption DEF TypeOK, FoundRec, FoundVer, CREATE_TOKEN
<1>2. w \in Class
  BY <1>1 DEF TypeOK, LeastClass, FileRecord, Class
<1>3. req \in Request
  BY <1>1, <1>2, RequestTypes
<1>4. wire' \subseteq Request
  BY <1>3 DEF Get, TypeOK
<1>5. /\ base' \in [Calls -> FileRecord \cup {Absent}]
      /\ baseVer' \in [Calls -> Nat]
      /\ want' \in [Calls -> Class]
      /\ pc' \in [Calls -> {"get", "update", "save", "done"}]
  BY <1>1, <1>2 DEF Get, TypeOK
<1>. QED
  BY <1>4, <1>5 DEF Get, TypeOK, docVars

LEMMA ReturnType ==
  ASSUME TypeOK, NEW r \in wire, Return(r)
  PROVE  pc' \in [Calls -> {"get", "update", "save", "done"}]
BY DEF TypeOK, Return

LEMMA TypeExecute ==
  ASSUME TypeOK, NEW r \in wire, Execute(r)
  PROVE  TypeOK'
<1>1. /\ r \in Request /\ r.call \in Calls /\ r.try \in Nat
      /\ r.ver \in Nat /\ r.rec \in FileRecord \cup {Absent}
      /\ input[r.call] \in Input
  BY DEF TypeOK, Request
<1>2. CASE UpdateApplied(r)
  <2>1. hot' \in FileRecord
    BY <1>1, <1>2, FreshenedType, want[r.call] \in Class
    DEF UpdateApplied, Store, TypeOK
  <2>2. counted' \subseteq Calls \X Nat
    BY <1>1, <1>2 DEF UpdateApplied, Store, TypeOK
  <2>3. pc' \in [Calls -> {"get", "update", "save", "done"}]
    BY <1>2, ReturnType DEF UpdateApplied
  <2>4. hotVer' \in Nat /\ seqNo' \in Nat
    BY <1>2 DEF UpdateApplied, Store, TypeOK
  <2>5. wire' \subseteq Request
    BY <1>2 DEF UpdateApplied, TypeOK
  <2>. QED
    BY <1>2, <2>1, <2>2, <2>3, <2>4, <2>5 DEF UpdateApplied, TypeOK
<1>3. ASSUME FallBackToSave(r)
      PROVE  /\ wire' \subseteq Request
             /\ pc' \in [Calls -> {"get", "update", "save", "done"}]
  <2>1. SaveRequest(r.call, base[r.call], baseVer[r.call], want[r.call])
          \in Request
    BY <1>1, RequestTypes DEF TypeOK
  <2>. QED
    BY <1>1, <1>3, <2>1 DEF FallBackToSave, TypeOK
<1>4. CASE UpdateMissing(r)
  BY <1>3, <1>4 DEF UpdateMissing, TypeOK, docVars
<1>5. CASE UpdateRefused(r)
  BY <1>3, <1>5 DEF UpdateRefused, TypeOK, docVars
<1>6. CASE SaveAccepted(r)
  <2>1. counted' \subseteq Calls \X Nat
    BY <1>1, <1>6 DEF SaveAccepted, Store, TypeOK
  <2>2. pc' \in [Calls -> {"get", "update", "save", "done"}]
    BY <1>6, ReturnType DEF SaveAccepted
  <2>3. /\ hot' \in FileRecord \cup {Absent} /\ hotVer' \in Nat
        /\ seqNo' \in Nat /\ wire' \subseteq Request
    BY <1>1, <1>6 DEF SaveAccepted, Store, TypeOK
  <2>. QED
    BY <1>6, <2>1, <2>2, <2>3 DEF SaveAccepted, TypeOK
<1>7. CASE SaveConflict(r)
  BY <1>1, <1>7 DEF SaveConflict, TypeOK, docVars
<1>. QED
  BY <1>2, <1>4, <1>5, <1>6, <1>7 DEF Execute

LEMMA TypeResend ==
  ASSUME TypeOK, NEW c \in Calls, Resend(c)
  PROVE  TypeOK'
<1>1. PICK r \in Requests(c) : wire' = wire \cup {[r EXCEPT !.try = @ + 1]}
  BY DEF Resend
<1>2. [r EXCEPT !.try = @ + 1] \in Request
  BY <1>1 DEF Requests, TypeOK, Request
<1>3. wire' \subseteq Request
  BY <1>1, <1>2 DEF TypeOK
<1>. QED
  BY <1>3 DEF Resend, TypeOK, docVars

LEMMA TypeDelete == TypeOK /\ Delete => TypeOK'
BY DEF Delete, TypeOK, callVars, CREATE_TOKEN

\* Every variable keeps its type, whatever the calls, the markings and the
\* bounds are.
THEOREM TypeCorrect == Spec => []TypeOK
<1>1. TypeOK /\ [Next]_vars => TypeOK'
  <2>. SUFFICES ASSUME TypeOK, [Next]_vars PROVE TypeOK'
    OBVIOUS
  <2>1. ASSUME NEW c \in Calls, Get(c) PROVE TypeOK'
    BY <2>1, TypeGet
  <2>2. ASSUME NEW c \in Calls, Resend(c) PROVE TypeOK'
    BY <2>2, TypeResend
  <2>3. ASSUME NEW r \in wire, Execute(r) PROVE TypeOK'
    BY <2>3, TypeExecute
  <2>4. CASE Delete
    BY <2>4, TypeDelete
  <2>5. CASE UNCHANGED vars
    BY <2>5 DEF vars, TypeOK
  <2>. QED
    BY <2>1, <2>2, <2>3, <2>4, <2>5 DEF Next, AllDone
<1>. QED
  BY <1>1, TypeInit, PTL DEF Spec
-----------------------------------------------------------------------------
(***************************************************************************)
(* FreshenInv is inductive when no archived copy exists.                   *)
(***************************************************************************)
LEMMA FreshenInit == Init /\ ~Archived => FreshenInv
<1>. SUFFICES ASSUME Init, ~Archived PROVE FreshenInv
  OBVIOUS
<1>1. arch = Absent /\ CountIsSightings
  BY DEF Init, CountIsSightings
<1>2. SeqInv /\ WireInv /\ SaveInv /\ BaseInv
  BY DEF Init, SeqInv, WireInv, SaveInv, BaseInv, CREATE_TOKEN
<1>3. CountedInv
  BY FS_EmptySet DEF Init, CountedInv
<1>. QED  BY <1>1, <1>2, <1>3 DEF FreshenInv

\* Without an archived copy a call reads the hot document.
LEMMA FoundIsHot ==
  ASSUME TypeOK, FreshenInv, NEW c \in Calls
  PROVE  FoundRec(c) = hot /\ FoundVer(c) = hotVer
BY DEF FreshenInv, SeqInv, FoundRec, FoundVer

LEMMA InvGet ==
  ASSUME TypeOK, FreshenInv, NEW c \in Calls, Get(c)
  PROVE  FreshenInv'
<1>. DEFINE w   == LeastClass(want[c], hot)
            upd == SameClass(w, hot)
            req == IF upd THEN UpdateRequest(c)
                   ELSE SaveRequest(c, hot, hotVer, w)
<1>1. /\ pc[c] = "get"
      /\ base' = [base EXCEPT ![c] = hot]
      /\ baseVer' = [baseVer EXCEPT ![c] = hotVer]
      /\ want' = [want EXCEPT ![c] = w]
      /\ pc' = [pc EXCEPT ![c] = IF upd THEN "update" ELSE "save"]
      /\ wire' = wire \cup {req}
      /\ UNCHANGED <<hot, hotVer, seqNo, counted, arch, input, resends>>
  BY FoundIsHot DEF Get, docVars
<1>2. /\ req.call = c /\ req.try = resends[c]
      /\ req.kind = IF upd THEN "update" ELSE "save"
  BY DEF UpdateRequest, SaveRequest
<1>3. resends[c] \in Nat /\ hotVer \in Nat /\ seqNo \in Nat
  BY DEF TypeOK
<1>4. \A r \in wire : r.call = c => r.try # resends[c]
  BY <1>1 DEF FreshenInv, WireInv, TypeOK, Request
<1>5. <<c, resends[c]>> \notin counted
  BY <1>1 DEF FreshenInv, CountedInv
<1>6. WireInv'
  <2>1. ASSUME NEW r \in wire'
        PROVE  /\ r.try <= resends'[r.call]
               /\ r.try = resends'[r.call] => pc'[r.call] = r.kind
               /\ <<r.call, r.try>> \notin counted'
    <3>1. CASE r = req
      BY <3>1, <1>1, <1>2, <1>3, <1>5 DEF TypeOK
    <3>2. CASE r \in wire
      BY <3>2, <1>1, <1>4 DEF FreshenInv, WireInv, TypeOK, Request
    <3>. QED  BY <3>1, <3>2, <2>1, <1>1
  <2>2. ASSUME NEW r \in wire', NEW s \in wire',
               s.call = r.call, s.try = r.try
        PROVE  s = r
    BY <2>2, <1>1, <1>2, <1>4 DEF FreshenInv, WireInv
  <2>. QED  BY <2>1, <2>2 DEF WireInv
<1>7. CountedInv'
  BY <1>1 DEF FreshenInv, CountedInv, TypeOK
<1>8. w \in Class /\ (hot # Absent => w \subseteq hot.cls)
  BY DEF LeastClass, TypeOK, FileRecord, Class
<1>9. SaveInv'
  <2>. SUFFICES ASSUME NEW r \in wire', r.kind = "save"
                PROVE  /\ r.ver <= seqNo'
                       /\ r.ver = CREATE_TOKEN => CreatesFirst(r)'
                       /\ r.ver = hotVer' /\ hot' # Absent => ReplacesHot(r)'
    BY DEF SaveInv
  <2>1. CASE r = req
    <3>1. r = SaveRequest(c, hot, hotVer, w)
      BY <2>1, <1>2
    <3>2. /\ r.rec = Freshened(hot, input[c], w) /\ r.ver = hotVer
          /\ r.call = c
      BY <3>1 DEF SaveRequest
    <3>3. hotVer <= seqNo /\ (hotVer = CREATE_TOKEN => hot = Absent)
      BY DEF FreshenInv, SeqInv
    <3>. QED
      BY <3>2, <3>3, <1>1, <1>8 DEF CreatesFirst, ReplacesHot
  <2>2. CASE r \in wire
    BY <2>2, <1>1 DEF FreshenInv, SaveInv, CreatesFirst, ReplacesHot
  <2>. QED  BY <2>1, <2>2, <1>1
<1>10. BaseInv'
  <2>. SUFFICES ASSUME NEW d \in Calls, pc'[d] = "update"
                PROVE  /\ base'[d] # Absent /\ want'[d] = base'[d].cls
                       /\ baseVer'[d] # CREATE_TOKEN /\ baseVer'[d] <= seqNo'
                       /\ baseVer'[d] = hotVer' => base'[d] = hot'
    BY DEF BaseInv
  <2>1. CASE d = c
    <3>1. upd
      BY <2>1, <1>1 DEF TypeOK
    <3>2. hot # Absent /\ w = hot.cls
      BY <3>1 DEF SameClass
    <3>. QED
      BY <2>1, <3>2, <1>1, <1>3 DEF TypeOK, FreshenInv, SeqInv
  <2>2. CASE d # c
    BY <2>2, <1>1 DEF TypeOK, FreshenInv, BaseInv
  <2>. QED  BY <2>1, <2>2
<1>11. arch' = Absent /\ SeqInv' /\ CountIsSightings'
  BY <1>1 DEF FreshenInv, SeqInv, CountIsSightings
<1>. QED
  BY <1>6, <1>7, <1>9, <1>10, <1>11 DEF FreshenInv

(***************************************************************************)
(* What UpdateApplied and SaveAccepted share: the stored record is         *)
(* replaced by one that counts one more request.                           *)
(***************************************************************************)
LEMMA InvStore ==
  ASSUME TypeOK, FreshenInv, NEW r \in wire, NEW rec \in FileRecord,
         rec.count = IF hot = Absent THEN 1 ELSE hot.count + 1,
         Store(rec, counted \cup {<<r.call, r.try>>}),
         wire' = wire \ {r}, Return(r),
         UNCHANGED <<arch, input, want, base, baseVer, resends>>
  PROVE  FreshenInv'
<1>1. /\ hot' = rec /\ hotVer' = seqNo + 1 /\ seqNo' = seqNo + 1
      /\ counted' = counted \cup {<<r.call, r.try>>}
      /\ rec # Absent
  BY FreshenAssumption DEF Store
<1>2. /\ r \in Request /\ r.call \in Calls /\ r.try \in Nat
      /\ seqNo \in Nat /\ hotVer \in Nat /\ hotVer <= seqNo
  BY DEF TypeOK, Request, FreshenInv, SeqInv
<1>3. <<r.call, r.try>> \notin counted /\ IsFiniteSet(counted)
  BY DEF FreshenInv, WireInv, CountedInv
<1>4. /\ IsFiniteSet(counted')
      /\ Cardinality(counted') = Cardinality(counted) + 1
  BY <1>1, <1>3, FS_AddElement
<1>5. CountIsSightings'
  <2>1. CASE hot = Absent
    <3>1. Cardinality(counted) = 0
      BY <2>1, FS_EmptySet DEF FreshenInv, CountedInv
    <3>. QED
      BY <2>1, <3>1, <1>1, <1>4 DEF CountIsSightings
  <2>2. CASE hot # Absent
    BY <2>2, <1>1, <1>4 DEF CountIsSightings, FreshenInv
  <2>. QED  BY <2>1, <2>2
<1>6. arch' = Absent /\ SeqInv'
  BY <1>1, <1>2 DEF FreshenInv, SeqInv, CREATE_TOKEN
<1>7. \A d \in Calls : d # r.call => pc'[d] = pc[d]
  BY DEF Return, TypeOK
<1>8. r.try = resends[r.call] => pc'[r.call] = "done"
  <2>. SUFFICES ASSUME r.try = resends[r.call] PROVE pc'[r.call] = "done"
    OBVIOUS
  <2>1. Current(r)
    BY DEF FreshenInv, WireInv, Current
  <2>. QED  BY <2>1, <1>2 DEF Return, TypeOK
<1>9. r.try # resends[r.call] => pc' = pc
  BY DEF Return, Current
<1>10. CountedInv'
  <2>. SUFFICES ASSUME NEW i \in counted'
                PROVE  /\ i[2] <= resends'[i[1]]
                       /\ i[2] = resends'[i[1]] => pc'[i[1]] = "done"
    BY <1>1, <1>4 DEF CountedInv
  <2>1. CASE i = <<r.call, r.try>>
    BY <2>1, <1>8 DEF FreshenInv, WireInv
  <2>2. CASE i \in counted
    <3>1. /\ i[1] \in Calls /\ i[2] <= resends[i[1]]
          /\ i[2] = resends[i[1]] => pc[i[1]] = "done"
      BY <2>2 DEF FreshenInv, CountedInv, TypeOK
    <3>. QED  BY <3>1, <1>7, <1>8, <1>9
  <2>. QED  BY <2>1, <2>2, <1>1
<1>11. WireInv'
  <2>. SUFFICES ASSUME NEW s \in wire'
                PROVE  /\ s.try <= resends'[s.call]
                       /\ s.try = resends'[s.call] => pc'[s.call] = s.kind
                       /\ <<s.call, s.try>> \notin counted'
                       /\ \A t \in wire' :
                            t.call = s.call /\ t.try = s.try => t = s
    BY DEF WireInv
  <2>1. s \in wire /\ s # r /\ s.call \in Calls
    BY DEF TypeOK, Request
  <2>2. /\ s.try <= resends[s.call]
        /\ s.try = resends[s.call] => pc[s.call] = s.kind
        /\ <<s.call, s.try>> \notin counted
        /\ \A t \in wire : t.call = s.call /\ t.try = s.try => t = s
    BY <2>1 DEF FreshenInv, WireInv
  <2>3. ~(s.call = r.call /\ s.try = r.try)
    BY <2>1, <2>2
  <2>4. <<s.call, s.try>> \notin counted'
    BY <2>2, <2>3, <1>1
  <2>5. s.try = resends[s.call] => pc'[s.call] = s.kind
    BY <2>1, <2>2, <2>3, <1>7, <1>9
  <2>. QED  BY <2>2, <2>4, <2>5
<1>12. SaveInv'
  <2>. SUFFICES ASSUME NEW s \in wire', s.kind = "save"
                PROVE  /\ s.ver <= seqNo'
                       /\ s.ver = CREATE_TOKEN => CreatesFirst(s)'
                       /\ s.ver # hotVer'
    BY DEF SaveInv
  <2>1. s.ver \in Nat /\ s.ver <= seqNo
    BY DEF TypeOK, Request, FreshenInv, SaveInv
  <2>2. s.ver = CREATE_TOKEN => CreatesFirst(s)'
    BY DEF FreshenInv, SaveInv, CreatesFirst
  <2>. QED
    BY <2>1, <2>2, <1>1, <1>2
<1>13. BaseInv'
  <2>. SUFFICES ASSUME NEW d \in Calls, pc'[d] = "update"
                PROVE  /\ base'[d] # Absent /\ want'[d] = base'[d].cls
                       /\ baseVer'[d] # CREATE_TOKEN /\ baseVer'[d] <= seqNo'
                       /\ baseVer'[d] = hotVer' => base'[d] = hot'
    BY DEF BaseInv
  <2>1. pc[d] = "update"
    BY DEF Return, TypeOK
  <2>2. baseVer[d] \in Nat
    BY DEF TypeOK
  <2>. QED
    BY <2>1, <2>2, <1>1, <1>2 DEF FreshenInv, BaseInv
<1>. QED
  BY <1>5, <1>6, <1>10, <1>11, <1>12, <1>13 DEF FreshenInv
LEMMA InvUpdateApplied ==
  ASSUME TypeOK, FreshenInv, NEW r \in wire, UpdateApplied(r)
  PROVE  FreshenInv'
<1>1. /\ hot # Absent /\ hot \in FileRecord /\ r.call \in Calls
      /\ input[r.call] \in Input /\ want[r.call] \in Class
  BY DEF UpdateApplied, TypeOK, Request
<1>2. Updated(hot, input[r.call]) \in FileRecord
  BY <1>1, FreshenedType
<1>3. Updated(hot, input[r.call]).count = hot.count + 1
  BY <1>1 DEF Updated, FileRecord
<1>. QED
  BY <1>1, <1>2, <1>3, InvStore DEF UpdateApplied

LEMMA InvSaveAccepted ==
  ASSUME TypeOK, FreshenInv, NEW r \in wire, SaveAccepted(r)
  PROVE  FreshenInv'
<1>1. PICK w \in Class : r.rec = Freshened(hot, input[r.call], w)
  <2>1. CASE r.ver = CREATE_TOKEN
    BY <2>1 DEF SaveAccepted, VersionMatches, FreshenInv, SaveInv, CreatesFirst
  <2>2. CASE r.ver # CREATE_TOKEN
    <3>1. hot # Absent /\ r.ver = hotVer /\ r.kind = "save"
      BY <2>2 DEF SaveAccepted, VersionMatches
    <3>2. PICK w \in SUBSET hot.cls : r.rec = Freshened(hot, input[r.call], w)
      BY <3>1 DEF FreshenInv, SaveInv, ReplacesHot
    <3>3. w \in Class
      BY <3>1, <3>2 DEF TypeOK, FileRecord, Class
    <3>. QED  BY <3>2, <3>3
  <2>. QED  BY <2>1, <2>2
<1>2. /\ hot \in FileRecord \cup {Absent} /\ r.call \in Calls
      /\ input[r.call] \in Input
  BY DEF TypeOK, Request
<1>3. r.rec \in FileRecord
  BY <1>1, <1>2, FreshenedType
<1>4. r.rec.count = IF hot = Absent THEN 1 ELSE hot.count + 1
  BY <1>1 DEF Freshened
<1>. QED
  BY <1>3, <1>4, InvStore DEF SaveAccepted

\* A request leaves the wire and nothing is stored.
LEMMA InvConsumed ==
  ASSUME TypeOK, FreshenInv, NEW r \in wire,
         wire' = wire \ {r},
         pc' \in [Calls -> {"get", "update", "save", "done"}],
         \A c \in Calls : pc'[c] # pc[c] =>
           c = r.call /\ r.try = resends[c] /\ pc'[c] = "get",
         UNCHANGED <<docVars, arch, input, want, base, baseVer, resends>>
  PROVE  FreshenInv'
<1>1. UNCHANGED <<hot, hotVer, seqNo, counted, arch, input>>
  BY DEF docVars
<1>2. \A c \in Calls : pc[c] = "done" => pc'[c] = "done"
  <2>. SUFFICES ASSUME NEW c \in Calls, pc[c] = "done", pc'[c] # pc[c]
                PROVE  FALSE
    OBVIOUS
  <2>1. r.call = c /\ r.try = resends[c] /\ r.kind \in {"update", "save"}
    BY DEF TypeOK, Request
  <2>. QED  BY <2>1 DEF FreshenInv, WireInv
<1>3. CountedInv'
  BY <1>1, <1>2 DEF FreshenInv, CountedInv, TypeOK
<1>4. WireInv'
  <2>. SUFFICES ASSUME NEW s \in wire, s # r
                PROVE  /\ s.try <= resends[s.call]
                       /\ s.try = resends[s.call] => pc'[s.call] = s.kind
                       /\ <<s.call, s.try>> \notin counted
                       /\ \A t \in wire :
                            t.call = s.call /\ t.try = s.try => t = s
    BY <1>1 DEF WireInv
  <2>1. s.call \in Calls
    BY DEF TypeOK, Request
  <2>2. /\ s.try <= resends[s.call]
        /\ s.try = resends[s.call] => pc[s.call] = s.kind
        /\ <<s.call, s.try>> \notin counted
        /\ \A t \in wire : t.call = s.call /\ t.try = s.try => t = s
    BY DEF FreshenInv, WireInv
  <2>3. ~(s.call = r.call /\ s.try = r.try)
    BY <2>2
  <2>. QED  BY <2>1, <2>2, <2>3
<1>5. SaveInv'
  BY <1>1 DEF FreshenInv, SaveInv, CreatesFirst, ReplacesHot
<1>6. BaseInv'
  BY <1>1 DEF FreshenInv, BaseInv
<1>7. arch' = Absent /\ SeqInv' /\ CountIsSightings'
  BY <1>1 DEF FreshenInv, SeqInv, CountIsSightings
<1>. QED
  BY <1>3, <1>4, <1>5, <1>6, <1>7 DEF FreshenInv

LEMMA InvSaveConflict ==
  ASSUME TypeOK, FreshenInv, NEW r \in wire, SaveConflict(r)
  PROVE  FreshenInv'
<1>1. r.call \in Calls
  BY DEF TypeOK, Request
<1>. QED
  BY <1>1, InvConsumed DEF SaveConflict, Current, TypeOK

LEMMA InvFallBack ==
  ASSUME TypeOK, FreshenInv, NEW r \in wire, r.kind = "update",
         FallBackToSave(r),
         UNCHANGED <<docVars, arch, input, want, base, baseVer, resends>>
  PROVE  FreshenInv'
<1>. DEFINE c   == r.call
            req == SaveRequest(c, base[c], baseVer[c], want[c])
<1>1. UNCHANGED <<hot, hotVer, seqNo, counted, arch, input>> /\ c \in Calls
  BY DEF docVars, TypeOK, Request
<1>2. CASE ~Current(r)
  BY <1>2, InvConsumed DEF FallBackToSave, TypeOK
<1>3. CASE Current(r)
  <2>1. /\ pc' = [pc EXCEPT ![c] = "save"]
        /\ wire' = (wire \ {r}) \cup {req}
        /\ pc[c] = "update" /\ r.try = resends[c]
    BY <1>3 DEF FallBackToSave, Current
  <2>2. req.call = c /\ req.try = resends[c] /\ req.kind = "save"
    BY DEF SaveRequest
  <2>3. \A s \in wire \ {r} : ~(s.call = c /\ s.try = r.try)
    BY DEF FreshenInv, WireInv
  <2>4. WireInv'
    <3>1. ASSUME NEW s \in wire'
          PROVE  /\ s.try <= resends'[s.call]
                 /\ s.try = resends'[s.call] => pc'[s.call] = s.kind
                 /\ <<s.call, s.try>> \notin counted'
      <4>1. CASE s = req
        BY <4>1, <1>1, <2>1, <2>2 DEF TypeOK, FreshenInv, WireInv
      <4>2. CASE s \in wire \ {r}
        <5>1. s.call \in Calls
          BY <4>2 DEF TypeOK, Request
        <5>2. s.try = resends[c] => s.call # c
          BY <4>2, <2>1, <2>3
        <5>. QED
          BY <4>2, <5>1, <5>2, <1>1, <2>1 DEF TypeOK, FreshenInv, WireInv
      <4>. QED  BY <4>1, <4>2, <2>1
    <3>2. ASSUME NEW s \in wire', NEW t \in wire',
                 t.call = s.call, t.try = s.try
          PROVE  t = s
      BY <3>2, <2>1, <2>2, <2>3 DEF FreshenInv, WireInv
    <3>. QED  BY <3>1, <3>2 DEF WireInv
  <2>5. CountedInv'
    BY <1>1, <2>1 DEF FreshenInv, CountedInv, TypeOK
  <2>6. /\ base[c] # Absent /\ base[c] \in FileRecord /\ want[c] = base[c].cls
        /\ baseVer[c] # CREATE_TOKEN /\ baseVer[c] <= seqNo
        /\ baseVer[c] = hotVer => base[c] = hot
    BY <1>1, <2>1 DEF FreshenInv, BaseInv, TypeOK
  <2>7. want[c] \in Class
    BY <1>1 DEF TypeOK
  <2>8. SaveInv'
    <3>. SUFFICES ASSUME NEW s \in wire', s.kind = "save"
                  PROVE  /\ s.ver <= seqNo'
                         /\ s.ver = CREATE_TOKEN => CreatesFirst(s)'
                         /\ s.ver = hotVer' /\ hot' # Absent => ReplacesHot(s)'
      BY DEF SaveInv
    <3>1. CASE s = req
      <4>1. /\ s.call = c /\ s.ver = baseVer[c]
            /\ s.rec = Freshened(base[c], input[c], want[c])
        BY <3>1 DEF SaveRequest
      <4>. QED
        BY <4>1, <1>1, <2>6, <2>7 DEF ReplacesHot
    <3>2. CASE s \in wire
      BY <3>2, <1>1 DEF FreshenInv, SaveInv, CreatesFirst, ReplacesHot
    <3>. QED  BY <3>1, <3>2, <2>1
  <2>9. BaseInv'
    BY <1>1, <2>1 DEF FreshenInv, BaseInv, TypeOK
  <2>10. arch' = Absent /\ SeqInv' /\ CountIsSightings'
    BY <1>1 DEF FreshenInv, SeqInv, CountIsSightings
  <2>. QED
    BY <2>4, <2>5, <2>8, <2>9, <2>10 DEF FreshenInv
<1>. QED  BY <1>2, <1>3

LEMMA InvResend ==
  ASSUME TypeOK, FreshenInv, NEW c \in Calls, Resend(c)
  PROVE  FreshenInv'
<1>1. PICK r \in Requests(c) : wire' = wire \cup {[r EXCEPT !.try = @ + 1]}
  BY DEF Resend
<1>. DEFINE req == [r EXCEPT !.try = @ + 1]
<1>2. /\ UNCHANGED <<hot, hotVer, seqNo, counted, arch, input,
                     pc, want, base, baseVer>>
      /\ resends' = [resends EXCEPT ![c] = @ + 1] /\ resends[c] \in Nat
  BY DEF Resend, docVars, TypeOK
<1>3. /\ r \in wire /\ r \in Request /\ r.call = c /\ r.try = resends[c]
      /\ pc[c] = r.kind
  BY <1>1 DEF Requests, Current, TypeOK
<1>4. /\ req.call = c /\ req.try = resends[c] + 1 /\ req.kind = r.kind
      /\ req.rec = r.rec /\ req.ver = r.ver
  BY <1>3 DEF Request
<1>5. resends'[c] = resends[c] + 1 /\ \A d \in Calls : resends'[d] >= resends[d]
  BY <1>2 DEF TypeOK
<1>6. WireInv'
  <2>1. ASSUME NEW s \in wire'
        PROVE  /\ s.try <= resends'[s.call]
               /\ s.try = resends'[s.call] => pc'[s.call] = s.kind
               /\ <<s.call, s.try>> \notin counted'
    <3>1. CASE s = req
      <4>1. <<c, resends[c] + 1>> \notin counted
        BY <1>2 DEF FreshenInv, CountedInv
      <4>. QED  BY <3>1, <4>1, <1>2, <1>3, <1>4, <1>5
    <3>2. CASE s \in wire
      <4>1. s.call \in Calls /\ s.try \in Nat
        BY <3>2 DEF TypeOK, Request
      <4>2. /\ s.try <= resends[s.call]
            /\ s.try = resends[s.call] => pc[s.call] = s.kind
            /\ <<s.call, s.try>> \notin counted
        BY <3>2 DEF FreshenInv, WireInv
      <4>. QED  BY <4>1, <4>2, <1>2 DEF TypeOK
    <3>. QED  BY <3>1, <3>2, <1>1
  <2>2. ASSUME NEW s \in wire, s.call = c, s.try = resends[c] + 1
        PROVE  FALSE
    <3>1. s.try <= resends[c]
      BY <2>2 DEF FreshenInv, WireInv
    <3>. QED  BY <3>1, <2>2, <1>2
  <2>3. ASSUME NEW s \in wire', NEW t \in wire',
               t.call = s.call, t.try = s.try
        PROVE  t = s
    BY <2>2, <2>3, <1>1, <1>4 DEF FreshenInv, WireInv
  <2>. QED  BY <2>1, <2>3 DEF WireInv
<1>7. CountedInv'
  <2>. SUFFICES ASSUME NEW i \in counted
                PROVE  /\ i[2] <= resends'[i[1]]
                       /\ i[2] = resends'[i[1]] => pc[i[1]] = "done"
    BY <1>2 DEF FreshenInv, CountedInv
  <2>1. i[1] \in Calls /\ i[2] \in Nat
    BY DEF TypeOK
  <2>2. i[2] <= resends[i[1]] /\ (i[2] = resends[i[1]] => pc[i[1]] = "done")
    BY DEF FreshenInv, CountedInv
  <2>. QED  BY <2>1, <2>2, <1>2 DEF TypeOK
<1>8. SaveInv'
  <2>. SUFFICES ASSUME NEW s \in wire', s.kind = "save"
                PROVE  /\ s.ver <= seqNo'
                       /\ s.ver = CREATE_TOKEN => CreatesFirst(s)'
                       /\ s.ver = hotVer' /\ hot' # Absent => ReplacesHot(s)'
    BY DEF SaveInv
  <2>1. PICK t \in wire : /\ t.kind = "save" /\ t.ver = s.ver
                         /\ t.rec = s.rec /\ t.call = s.call
    BY <1>1, <1>3, <1>4
  <2>. QED
    BY <2>1, <1>2 DEF FreshenInv, SaveInv, CreatesFirst, ReplacesHot
<1>9. BaseInv'
  BY <1>2 DEF FreshenInv, BaseInv
<1>10. arch' = Absent /\ SeqInv' /\ CountIsSightings'
  BY <1>2 DEF FreshenInv, SeqInv, CountIsSightings
<1>. QED
  BY <1>6, <1>7, <1>8, <1>9, <1>10 DEF FreshenInv

LEMMA InvDelete ==
  ASSUME TypeOK, FreshenInv, Delete
  PROVE  FreshenInv'
<1>1. /\ hot' = Absent /\ hotVer' = CREATE_TOKEN /\ seqNo' = seqNo + 1
      /\ counted' = {} /\ seqNo \in Nat
      /\ UNCHANGED <<arch, input, wire, pc, want, base, baseVer, resends>>
  BY DEF Delete, callVars, TypeOK
<1>2. WireInv' /\ SeqInv' /\ CountIsSightings' /\ arch' = Absent
  <2>1. arch' = Absent /\ CountIsSightings'
    BY <1>1 DEF FreshenInv, CountIsSightings
  <2>2. SeqInv'
    BY <1>1 DEF SeqInv, CREATE_TOKEN
  <2>3. WireInv'
    BY <1>1 DEF FreshenInv, WireInv
  <2>. QED  BY <2>1, <2>2, <2>3
<1>3. CountedInv'
  BY <1>1, FS_EmptySet DEF CountedInv
<1>4. SaveInv'
  <2>. SUFFICES ASSUME NEW r \in wire, r.kind = "save"
                PROVE  r.ver <= seqNo' /\ (r.ver = CREATE_TOKEN => CreatesFirst(r)')
    BY <1>1 DEF SaveInv
  <2>1. r.ver \in Nat /\ r.ver <= seqNo /\ (r.ver = CREATE_TOKEN => CreatesFirst(r))
    BY DEF TypeOK, Request, FreshenInv, SaveInv
  <2>. QED  BY <2>1, <1>1 DEF CreatesFirst
<1>5. BaseInv'
  BY <1>1 DEF FreshenInv, BaseInv, TypeOK
<1>. QED
  BY <1>1, <1>2, <1>3, <1>4, <1>5 DEF FreshenInv
LEMMA InvNext ==
  ASSUME TypeOK, FreshenInv, [Next]_vars
  PROVE  FreshenInv'
<1>1. ASSUME NEW c \in Calls, Get(c) PROVE FreshenInv'
  BY <1>1, InvGet
<1>2. ASSUME NEW c \in Calls, Resend(c) PROVE FreshenInv'
  BY <1>2, InvResend
<1>3. ASSUME NEW r \in wire, Execute(r) PROVE FreshenInv'
  <2>1. CASE UpdateApplied(r)
    BY <2>1, InvUpdateApplied
  <2>2. CASE UpdateMissing(r)
    BY <2>2, InvFallBack DEF UpdateMissing
  <2>3. CASE UpdateRefused(r)
    BY <2>3, InvFallBack DEF UpdateRefused
  <2>4. CASE SaveAccepted(r)
    BY <2>4, InvSaveAccepted
  <2>5. CASE SaveConflict(r)
    BY <2>5, InvSaveConflict
  <2>. QED
    BY <1>3, <2>1, <2>2, <2>3, <2>4, <2>5 DEF Execute
<1>4. CASE Delete
  BY <1>4, InvDelete
<1>5. CASE UNCHANGED vars
  BY <1>5 DEF vars, FreshenInv, SeqInv, WireInv, CountedInv, SaveInv, BaseInv,
              CreatesFirst, ReplacesHot, CountIsSightings
<1>. QED
  BY <1>1, <1>2, <1>3, <1>4, <1>5 DEF Next, AllDone

(***************************************************************************)
(* With no archived copy in the way, the invariant holds of any number of  *)
(* concurrent calls, timeouts and deletions.                               *)
(***************************************************************************)
THEOREM FreshenInvariant ==
  ASSUME ~Archived
  PROVE  Spec => []FreshenInv
<1>1. TypeOK /\ FreshenInv /\ [Next]_vars => FreshenInv'
  BY InvNext
<1>2. Init => FreshenInv
  BY FreshenInit
<1>. QED
  BY <1>1, <1>2, TypeCorrect, PTL DEF Spec

\* seen.count is exact: no increment is ever overwritten.
THEOREM CountExact ==
  ASSUME ~Archived
  PROVE  Spec => []CountIsSightings
<1>1. FreshenInv => CountIsSightings
  BY DEF FreshenInv
<1>. QED
  BY <1>1, FreshenInvariant, PTL

\* A call that returned was counted, unless the record was deleted since.
THEOREM NothingLost == Spec => []NoLostSighting
<1>1. Init => NoLostSighting
  BY DEF Init, NoLostSighting, Done
<1>2. TypeOK /\ NoLostSighting /\ [Next]_vars => NoLostSighting'
  <2>. SUFFICES ASSUME TypeOK, NoLostSighting, [Next]_vars,
                       deletes' = 0, NEW c \in Calls, pc'[c] = "done"
                PROVE  \E i \in counted' : i[1] = c
    BY DEF NoLostSighting, Done
  <2>1. ASSUME deletes' = deletes, counted' = counted, pc[c] = "done"
        PROVE  \E i \in counted' : i[1] = c
    BY <2>1 DEF NoLostSighting, Done
  <2>2. ASSUME NEW r \in wire, Return(r), UNCHANGED deletes,
               counted' = counted \cup {<<r.call, r.try>>}
        PROVE  \E i \in counted' : i[1] = c
    <3>1. CASE c = r.call
      <4>1. <<r.call, r.try>> \in counted' /\ <<r.call, r.try>>[1] = c
        BY <2>2, <3>1
      <4>. QED  BY <4>1, Zenon
    <3>2. CASE c # r.call
      <4>1. pc[c] = "done"
        BY <2>2, <3>2 DEF Return, TypeOK
      <4>. QED  BY <4>1, <2>2 DEF NoLostSighting, Done
    <3>. QED  BY <3>1, <3>2
  <2>3. ASSUME NEW d \in Calls, Get(d)
        PROVE  \E i \in counted' : i[1] = c
    <3>1. pc[c] = "done"
      BY <2>3 DEF Get, TypeOK
    <3>. QED  BY <2>1, <2>3, <3>1 DEF Get, docVars
  <2>4. ASSUME NEW d \in Calls, Resend(d)
        PROVE  \E i \in counted' : i[1] = c
    BY <2>1, <2>4 DEF Resend, docVars
  <2>5. ASSUME NEW r \in wire, Execute(r)
        PROVE  \E i \in counted' : i[1] = c
    <3>1. r.call \in Calls
      BY DEF TypeOK, Request
    <3>2. CASE UpdateApplied(r)
      BY <2>2, <3>2 DEF UpdateApplied, Store
    <3>3. CASE SaveAccepted(r)
      BY <2>2, <3>3 DEF SaveAccepted, Store
    <3>4. ASSUME FallBackToSave(r), UNCHANGED <<docVars, deletes>>
          PROVE  \E i \in counted' : i[1] = c
      <4>1. pc[c] = "done"
        BY <3>1, <3>4 DEF FallBackToSave, TypeOK
      <4>. QED  BY <2>1, <3>4, <4>1 DEF docVars
    <3>5. CASE UpdateMissing(r)
      BY <3>4, <3>5 DEF UpdateMissing
    <3>6. CASE UpdateRefused(r)
      BY <3>4, <3>6 DEF UpdateRefused
    <3>7. CASE SaveConflict(r)
      <4>1. pc[c] = "done"
        BY <3>1, <3>7 DEF SaveConflict, TypeOK
      <4>. QED  BY <2>1, <3>7, <4>1 DEF SaveConflict, docVars
    <3>. QED
      BY <2>5, <3>2, <3>3, <3>5, <3>6, <3>7 DEF Execute
  <2>6. CASE Delete
    BY <2>6 DEF Delete, TypeOK
  <2>7. CASE UNCHANGED vars
    BY <2>1, <2>7 DEF vars
  <2>. QED
    BY <2>3, <2>4, <2>5, <2>6, <2>7 DEF Next, AllDone
<1>. QED
  BY <1>1, <1>2, TypeCorrect, PTL DEF Spec

(***************************************************************************)
(* A record never counts back and is never restricted again.               *)
(***************************************************************************)
THEOREM NeverBackwards ==
  ASSUME ~Archived
  PROVE  Spec => FreshenMonotone
<1>. DEFINE Forward ==
       hot # Absent /\ hot' # Absent
         => hot'.count >= hot.count /\ hot'.cls \subseteq hot.cls
<1>1. ASSUME TypeOK, FreshenInv, [Next]_vars
      PROVE  [Forward]_vars
  <2>. SUFFICES ASSUME hot # Absent, hot' # Absent, Next
                PROVE  hot'.count >= hot.count /\ hot'.cls \subseteq hot.cls
    BY <1>1 DEF vars
  <2>1. hot \in FileRecord /\ hot.count \in Nat
    BY <1>1 DEF TypeOK, FileRecord
  <2>2. CASE UNCHANGED hot
    BY <2>1, <2>2
  <2>3. ASSUME NEW r \in wire, UpdateApplied(r)
        PROVE  hot'.count = hot.count + 1 /\ hot'.cls = hot.cls
    BY <2>1, <2>3 DEF UpdateApplied, Store, Updated, FileRecord
  <2>4. ASSUME NEW r \in wire, SaveAccepted(r)
        PROVE  hot'.count = hot.count + 1 /\ hot'.cls \subseteq hot.cls
    <3>1. hot' = r.rec /\ r.kind = "save" /\ hotVer = r.ver
      BY <2>4 DEF SaveAccepted, VersionMatches, Store
    <3>2. PICK w \in SUBSET hot.cls : r.rec = Freshened(hot, input[r.call], w)
      BY <1>1, <3>1 DEF FreshenInv, SaveInv, ReplacesHot
    <3>. QED  BY <2>1, <3>1, <3>2 DEF Freshened
  <2>5. ASSUME NEW r \in wire, Execute(r)
        PROVE  hot' = hot \/ UpdateApplied(r) \/ SaveAccepted(r)
    BY <2>5 DEF Execute, UpdateMissing, UpdateRefused, SaveConflict, docVars
  <2>. QED
    BY <2>1, <2>2, <2>3, <2>4, <2>5
    DEF Next, Get, Resend, Delete, AllDone, vars, docVars
<1>. QED
  BY <1>1, TypeCorrect, FreshenInvariant, PTL DEF Spec, FreshenMonotone
-----------------------------------------------------------------------------
(***************************************************************************)
(* The implementation of the ledger.  Nothing is deleted and every expiry  *)
(* is a date.                                                              *)
(***************************************************************************)
DatesOnly == ~Archived /\ MaxDeletes = 0 /\ Never \notin CallExpiries

LEMMA LedgerInit == DatesOnly /\ Init => LedgerInv
<1>. SUFFICES ASSUME DatesOnly, Init PROVE LedgerInv
  OBVIOUS
<1>1. MeetInv
  BY DEF Init, MeetInv
<1>. QED
  BY <1>1 DEF Init, LedgerInv, ClassificationIsLeast

\* The classification a sighting by c leaves behind.
MeetWith(c) == IF hot = Absent THEN input[c].cls ELSE hot.cls \cap input[c].cls

LEMMA LedgerGet ==
  ASSUME TypeOK, FreshenInv, LedgerInv, NEW c \in Calls, Get(c)
  PROVE  LedgerInv'
<1>. DEFINE w   == LeastClass(want[c], hot)
            upd == SameClass(w, hot)
            req == IF upd THEN UpdateRequest(c)
                   ELSE SaveRequest(c, hot, hotVer, w)
<1>1. /\ want' = [want EXCEPT ![c] = w]
      /\ pc' = [pc EXCEPT ![c] = IF upd THEN "update" ELSE "save"]
      /\ wire' = wire \cup {req}
      /\ UNCHANGED <<hot, hotVer, counted, input, deletes>>
  BY FoundIsHot DEF Get, docVars
<1>2. w = MeetWith(c)
  BY DEF LedgerInv, MeetInv, LeastClass, MeetWith
<1>3. upd => hot # Absent /\ w = hot.cls
  BY DEF SameClass
<1>4. \A d \in Calls :
        /\ want'[d] \subseteq input[d].cls
        /\ hot = Absent => want'[d] = input[d].cls /\ pc'[d] # "update"
        /\ hot # Absent => hot.cls \cap input[d].cls \subseteq want'[d]
        /\ pc'[d] = "update" => hot.cls \subseteq want'[d]
  <2>. SUFFICES ASSUME NEW d \in Calls
       PROVE  /\ want'[d] \subseteq input[d].cls
              /\ hot = Absent => want'[d] = input[d].cls /\ pc'[d] # "update"
              /\ hot # Absent => hot.cls \cap input[d].cls \subseteq want'[d]
              /\ pc'[d] = "update" => hot.cls \subseteq want'[d]
    OBVIOUS
  <2>1. CASE d = c
    BY <2>1, <1>1, <1>2, <1>3 DEF TypeOK, MeetWith
  <2>2. CASE d # c
    BY <2>2, <1>1 DEF TypeOK, LedgerInv, MeetInv
  <2>. QED  BY <2>1, <2>2
<1>5. /\ req.kind = "update" => hot # Absent /\ hot.cls \subseteq input[c].cls
      /\ req.kind = "save" => req.rec.cls = MeetWith(c)
      /\ req.call = c
  <2>1. CASE upd
    BY <2>1, <1>2, <1>3 DEF UpdateRequest, MeetWith
  <2>2. CASE ~upd
    BY <2>2, <1>2 DEF SaveRequest, Freshened
  <2>. QED  BY <2>1, <2>2
<1>6. MeetInv'
  BY <1>1, <1>4, <1>5 DEF LedgerInv, MeetInv, VersionMatches, MeetWith
<1>. QED
  BY <1>1, <1>6 DEF LedgerInv, ClassificationIsLeast

\* Storing a record that is a sighting by the call of r.
LEMMA LedgerStore ==
  ASSUME TypeOK, FreshenInv, LedgerInv, NEW r \in wire, NEW rec \in FileRecord,
         rec.cls = MeetWith(r.call), rec.exp # Never,
         Store(rec, counted \cup {<<r.call, r.try>>}),
         wire' = wire \ {r}, Return(r),
         UNCHANGED <<arch, input, want, base, baseVer, resends, deletes>>
  PROVE  LedgerInv'
<1>1. /\ hot' = rec /\ hotVer' = seqNo + 1
      /\ counted' = counted \cup {<<r.call, r.try>>}
      /\ rec # Absent
  BY FreshenAssumption DEF Store
<1>2. /\ r.call \in Calls /\ seqNo \in Nat
      /\ input[r.call].cls \subseteq Markings
  BY DEF TypeOK, Request, Input, Class
<1>3. ClassificationIsLeast'
  <2>. SUFFICES rec.cls = {m \in Markings :
                             \A i \in counted' : m \in input[i[1]].cls}
    BY <1>1 DEF ClassificationIsLeast
  <2>. DEFINE all(S, m) == \A i \in S : m \in input[i[1]].cls
              id == <<r.call, r.try>>
  <2>1. ASSUME NEW m
        PROVE  all(counted', m) <=> all(counted, m) /\ m \in input[r.call].cls
    <3>1. id[1] = r.call /\ counted' = counted \cup {id}
      BY <1>1
    <3>. HIDE DEF id
    <3>. QED  BY <3>1
  <2>2. CASE hot = Absent
    <3>1. counted = {}
      BY <2>2 DEF FreshenInv, CountedInv
    <3>2. rec.cls = input[r.call].cls
      BY <2>2 DEF MeetWith
    <3>. HIDE DEF all
    <3>3. \A m : all({}, m)
      BY DEF all
    <3>4. rec.cls = {m \in Markings : all(counted', m)}
      BY <2>1, <3>1, <3>2, <3>3, <1>2
    <3>. QED  BY <3>4 DEF all
  <2>3. CASE hot # Absent
    <3>1. hot.cls = {m \in Markings : all(counted, m)}
      BY <2>3 DEF LedgerInv, ClassificationIsLeast
    <3>2. rec.cls = hot.cls \cap input[r.call].cls
      BY <2>3 DEF MeetWith
    <3>. HIDE DEF all
    <3>3. rec.cls = {m \in Markings : all(counted', m)}
      BY <2>1, <3>1, <3>2
    <3>. QED  BY <3>3 DEF all
  <2>. QED  BY <2>2, <2>3
<1>4. /\ hot # Absent => rec.cls \subseteq hot.cls
      /\ \A c \in Calls : pc'[c] = "update" => pc[c] = "update"
  BY DEF MeetWith, Return, TypeOK
<1>5. \A c \in Calls :
        /\ want[c] \subseteq input[c].cls
        /\ rec.cls \cap input[c].cls \subseteq want[c]
        /\ pc'[c] = "update" => rec.cls \subseteq want[c]
  <2>. SUFFICES ASSUME NEW c \in Calls
                PROVE  /\ want[c] \subseteq input[c].cls
                       /\ rec.cls \cap input[c].cls \subseteq want[c]
                       /\ pc'[c] = "update" => rec.cls \subseteq want[c]
    OBVIOUS
  <2>. QED  BY <1>4 DEF LedgerInv, MeetInv
<1>6. ASSUME NEW s \in wire'
      PROVE  /\ s.kind = "update" => rec.cls \subseteq input[s.call].cls
             /\ s.kind = "save" => ~VersionMatches(s)'
  <2>1. s.kind = "update" => rec.cls \subseteq input[s.call].cls
    BY <1>4 DEF LedgerInv, MeetInv
  <2>2. s.kind = "save" => s.ver \in Nat /\ s.ver <= seqNo
    BY DEF TypeOK, Request, FreshenInv, SaveInv
  <2>. QED
    BY <2>1, <2>2, <1>1, <1>2 DEF VersionMatches
<1>7. MeetInv'
  BY <1>1, <1>5, <1>6 DEF MeetInv
<1>. QED
  BY <1>1, <1>3, <1>7 DEF LedgerInv
LEMMA EntryOfRecord ==
  ASSUME NEW rec \in FileRecord
  PROVE  /\ rec # Absent
         /\ LedgerEntry(rec) = [count |-> rec.count, cls |-> rec.cls,
                                exp |-> rec.exp]
         /\ LedgerEntry(rec) # Absent
<1>1. rec # Absent
  BY FreshenAssumption
<1>2. [count |-> rec.count, cls |-> rec.cls, exp |-> rec.exp] \in Entry
  BY DEF FileRecord, Entry
<1>. QED
  BY <1>1, <1>2, FreshenAssumption DEF LedgerEntry

\* The two steps that store a record are sightings by their call.
LEMMA StoredIsSighting ==
  ASSUME DatesOnly, TypeOK, FreshenInv, LedgerInv, NEW r \in wire,
         UpdateApplied(r) \/ SaveAccepted(r)
  PROVE  /\ hot' \in FileRecord /\ hot'.cls = MeetWith(r.call)
         /\ hot'.exp # Never
         /\ LedgerEntry(hot') =
              Ledger!Sighted(LedgerEntry(hot),
                             [cls |-> input[r.call].cls, exp |-> input[r.call].exp])
<1>. DEFINE in == input[r.call]
<1>1. /\ r.call \in Calls /\ in \in Input /\ in.exp \in Nat
      /\ hot \in FileRecord \cup {Absent}
      /\ want[r.call] \in Class
      /\ hot # Absent => hot \in FileRecord /\ hot.exp \in Nat
  <2>1. r.call \in Calls /\ in \in Input /\ want[r.call] \in Class
    BY DEF TypeOK, Request
  <2>2. in.exp \in Nat
    BY <2>1, FreshenAssumption DEF Input, DatesOnly, Expiry
  <2>3. hot \in FileRecord \cup {Absent}
    BY DEF TypeOK
  <2>4. hot # Absent => hot \in FileRecord /\ hot.exp \in Nat
    BY <2>3 DEF LedgerInv, FileRecord, Expiry
  <2>. HIDE DEF in
  <2>. QED  BY <2>1, <2>2, <2>3, <2>4
<1>2. \A e \in Nat : e # Never
  BY FreshenAssumption
<1>3. CASE UpdateApplied(r)
  <2>1. hot # Absent /\ hot' = Updated(hot, in)
    BY <1>3 DEF UpdateApplied, Store
  <2>2. hot' \in FileRecord
    BY <1>1, <2>1, FreshenedType
  <2>3. hot.cls \subseteq in.cls
    BY <1>3 DEF UpdateApplied, LedgerInv, MeetInv
  <2>4. /\ hot'.count = hot.count + 1 /\ hot'.cls = hot.cls
        /\ hot'.exp = IF hot.exp < in.exp THEN in.exp ELSE hot.exp
    BY <1>1, <1>2, <2>1 DEF Updated, FileRecord, UpdateMax
  <2>5. hot' # Absent /\ hot.cls \cap in.cls = hot.cls
    BY <2>2, <2>3, FreshenAssumption
  <2>. QED
    <3>1. hot'.cls = MeetWith(r.call) /\ hot'.exp # Never
      BY <1>1, <1>2, <2>1, <2>4, <2>5 DEF MeetWith
    <3>2. LedgerEntry(hot') =
            Ledger!Sighted(LedgerEntry(hot), [cls |-> in.cls, exp |-> in.exp])
      <4>1. /\ LedgerEntry(hot') = [count |-> hot'.count, cls |-> hot'.cls,
                                    exp |-> hot'.exp]
            /\ LedgerEntry(hot) = [count |-> hot.count, cls |-> hot.cls,
                                   exp |-> hot.exp]
            /\ LedgerEntry(hot) # Absent
        BY <1>1, <2>1, <2>2, EntryOfRecord
      <4>2. Ledger!Sighted(LedgerEntry(hot), [cls |-> in.cls, exp |-> in.exp])
              = [count |-> hot.count + 1, cls |-> hot.cls \cap in.cls,
                 exp |-> IF hot.exp < in.exp THEN in.exp ELSE hot.exp]
        BY <4>1 DEF Ledger!Sighted
      <4>. QED  BY <4>1, <4>2, <2>4, <2>5
    <3>. QED  BY <2>2, <3>1, <3>2
<1>4. CASE SaveAccepted(r)
  <2>1. /\ hot' = r.rec /\ r.kind = "save" /\ VersionMatches(r)
    BY <1>4 DEF SaveAccepted, Store
  <2>2. PICK w \in Class : hot' = Freshened(hot, in, w)
    <3>1. CASE hot = Absent
      <4>1. r.ver = CREATE_TOKEN
        BY <3>1, <2>1 DEF VersionMatches
      <4>. QED
        BY <3>1, <4>1, <2>1 DEF FreshenInv, SaveInv, CreatesFirst
    <3>2. CASE hot # Absent
      <4>1. r.ver = hotVer
        BY <3>2, <2>1 DEF VersionMatches
      <4>2. PICK w \in SUBSET hot.cls : r.rec = Freshened(hot, in, w)
        BY <3>2, <4>1, <2>1 DEF FreshenInv, SaveInv, ReplacesHot
      <4>3. w \in Class
        BY <3>2, <4>2, <1>1 DEF FileRecord, Class
      <4>. QED  BY <2>1, <4>2, <4>3
    <3>. QED  BY <3>1, <3>2
  <2>3. hot' \in FileRecord /\ hot' # Absent
    BY <1>1, <2>2, FreshenedType, FreshenAssumption
  <2>4. hot'.cls = MeetWith(r.call)
    BY <2>1 DEF LedgerInv, MeetInv, MeetWith
  <2>5. /\ hot'.count = IF hot = Absent THEN 1 ELSE hot.count + 1
        /\ hot'.exp = IF hot = Absent \/ hot.exp < in.exp THEN in.exp
                      ELSE hot.exp
    BY <1>1, <1>2, <2>2 DEF Freshened, LaterExpiry
  <2>6. CASE hot = Absent
    BY <1>1, <1>2, <2>3, <2>4, <2>5, <2>6, EntryOfRecord
    DEF MeetWith, LedgerEntry, Ledger!Sighted
  <2>7. CASE hot # Absent
    BY <1>1, <1>2, <2>3, <2>4, <2>5, <2>7, EntryOfRecord
    DEF MeetWith, Ledger!Sighted
  <2>. QED  BY <2>6, <2>7
<1>. QED  BY <1>3, <1>4
LEMMA LedgerStored ==
  ASSUME DatesOnly, TypeOK, FreshenInv, LedgerInv, NEW r \in wire,
         UpdateApplied(r) \/ SaveAccepted(r)
  PROVE  LedgerInv'
<1>1. /\ hot' \in FileRecord /\ hot'.cls = MeetWith(r.call)
      /\ hot'.exp # Never
  BY StoredIsSighting
<1>2. Store(hot', counted \cup {<<r.call, r.try>>})
  BY DEF UpdateApplied, SaveAccepted, Store
<1>. QED
  BY <1>1, <1>2, LedgerStore DEF UpdateApplied, SaveAccepted

\* Nothing is stored, and the requests on the wire are as good as before.
LEMMA LedgerUnstored ==
  ASSUME TypeOK, LedgerInv,
         UNCHANGED <<docVars, input, want, deletes>>,
         \A c \in Calls : pc'[c] = "update" => pc[c] = "update",
         \A s \in wire' :
           \/ \E t \in wire : /\ t.kind = s.kind /\ t.call = s.call
                            /\ t.rec = s.rec /\ t.ver = s.ver
           \/ /\ s.kind = "save"
              /\ VersionMatches(s) => s.rec.cls = MeetWith(s.call)
  PROVE  LedgerInv'
<1>1. UNCHANGED <<hot, hotVer, seqNo, counted>>
  BY DEF docVars
<1>2. ASSUME NEW s \in wire'
      PROVE  /\ s.kind = "update" =>
                  hot # Absent /\ hot.cls \subseteq input[s.call].cls
             /\ s.kind = "save" /\ VersionMatches(s) =>
                  s.rec.cls = MeetWith(s.call)
  <2>1. CASE s.kind = "save" /\ (VersionMatches(s) => s.rec.cls = MeetWith(s.call))
    BY <2>1
  <2>2. ASSUME NEW t \in wire, t.kind = s.kind, t.call = s.call,
               t.rec = s.rec, t.ver = s.ver
        PROVE  /\ s.kind = "update" =>
                    hot # Absent /\ hot.cls \subseteq input[s.call].cls
               /\ s.kind = "save" /\ VersionMatches(s) =>
                    s.rec.cls = MeetWith(s.call)
    <3>1. VersionMatches(s) <=> VersionMatches(t)
      BY <2>2 DEF VersionMatches
    <3>2. /\ t.kind = "update" =>
                hot # Absent /\ hot.cls \subseteq input[t.call].cls
          /\ t.kind = "save" /\ VersionMatches(t) => t.rec.cls = MeetWith(t.call)
      BY <2>2 DEF LedgerInv, MeetInv, MeetWith
    <3>. QED  BY <2>2, <3>1, <3>2, Zenon
  <2>. QED  BY <1>2, <2>1, <2>2
<1>3. \A s : VersionMatches(s)' <=> VersionMatches(s)
  BY <1>1 DEF VersionMatches
<1>4. MeetInv'
  BY <1>1, <1>2, <1>3 DEF LedgerInv, MeetInv, MeetWith
<1>. QED
  BY <1>1, <1>4 DEF LedgerInv, ClassificationIsLeast

LEMMA LedgerFallBack ==
  ASSUME TypeOK, FreshenInv, LedgerInv, NEW r \in wire, FallBackToSave(r),
         r.kind = "update",
         UNCHANGED <<docVars, input, want, base, baseVer, deletes>>
  PROVE  LedgerInv'
<1>. DEFINE c   == r.call
            req == SaveRequest(c, base[c], baseVer[c], want[c])
<1>1. c \in Calls
  BY DEF TypeOK, Request
<1>2. CASE ~Current(r)
  BY <1>2, LedgerUnstored DEF FallBackToSave
<1>3. CASE Current(r)
  <2>1. /\ pc' = [pc EXCEPT ![c] = "save"] /\ pc[c] = "update"
        /\ wire' = (wire \ {r}) \cup {req}
    BY <1>3 DEF FallBackToSave, Current
  <2>2. /\ base[c] # Absent /\ want[c] = base[c].cls
        /\ baseVer[c] # CREATE_TOKEN
        /\ baseVer[c] = hotVer => base[c] = hot
        /\ want[c] \subseteq input[c].cls
    BY <1>1, <2>1 DEF FreshenInv, BaseInv, LedgerInv, MeetInv
  <2>3. /\ req.kind = "save" /\ req.call = c /\ req.ver = baseVer[c]
        /\ req.rec.cls = want[c]
    BY <2>2 DEF SaveRequest, Freshened
  <2>4. VersionMatches(req) => req.rec.cls = MeetWith(req.call)
    BY <2>2, <2>3 DEF VersionMatches, MeetWith
  <2>5. \A s \in wire' :
           \/ \E t \in wire : /\ t.kind = s.kind /\ t.call = s.call
                            /\ t.rec = s.rec /\ t.ver = s.ver
           \/ /\ s.kind = "save"
              /\ VersionMatches(s) => s.rec.cls = MeetWith(s.call)
    BY <2>1, <2>3, <2>4
  <2>6. \A d \in Calls : pc'[d] = "update" => pc[d] = "update"
    BY <2>1 DEF TypeOK
  <2>. QED  BY <2>5, <2>6, LedgerUnstored
<1>. QED  BY <1>2, <1>3

LEMMA LedgerNext ==
  ASSUME DatesOnly, TypeOK, FreshenInv, LedgerInv, [Next]_vars
  PROVE  LedgerInv'
<1>1. ASSUME NEW c \in Calls, Get(c) PROVE LedgerInv'
  BY <1>1, LedgerGet
<1>2. ASSUME NEW c \in Calls, Resend(c) PROVE LedgerInv'
  <2>1. PICK r \in Requests(c) : wire' = wire \cup {[r EXCEPT !.try = @ + 1]}
    BY <1>2 DEF Resend
  <2>2. r \in wire /\ r \in Request
    BY <2>1 DEF Requests, TypeOK
  <2>3. \A s \in wire' : \E t \in wire :
          /\ t.kind = s.kind /\ t.call = s.call
          /\ t.rec = s.rec /\ t.ver = s.ver
    BY <2>1, <2>2 DEF Request
  <2>. QED  BY <1>2, <2>3, LedgerUnstored DEF Resend
<1>3. ASSUME NEW r \in wire, Execute(r) PROVE LedgerInv'
  <2>1. CASE UpdateApplied(r) \/ SaveAccepted(r)
    BY <2>1, LedgerStored
  <2>2. CASE UpdateMissing(r)
    BY <2>2, LedgerFallBack DEF UpdateMissing
  <2>3. CASE UpdateRefused(r)
    BY <2>3, LedgerFallBack DEF UpdateRefused
  <2>4. CASE SaveConflict(r)
    <3>1. \A c \in Calls : pc'[c] = "update" => pc[c] = "update"
      BY <2>4 DEF SaveConflict, TypeOK
    <3>. QED  BY <2>4, <3>1, LedgerUnstored DEF SaveConflict
  <2>. QED
    BY <1>3, <2>1, <2>2, <2>3, <2>4 DEF Execute
<1>4. CASE Delete
  BY <1>4 DEF Delete, LedgerInv, DatesOnly
<1>5. CASE UNCHANGED vars
  BY <1>5, LedgerUnstored DEF vars, docVars
<1>. QED
  BY <1>1, <1>2, <1>3, <1>4, <1>5 DEF Next, AllDone

\* LedgerInv, and with it the least classification, holds throughout.
THEOREM LedgerInvariant ==
  ASSUME DatesOnly
  PROVE  Spec => []LedgerInv
<1>1. TypeOK /\ FreshenInv /\ LedgerInv /\ [Next]_vars => LedgerInv'
  BY LedgerNext
<1>2. Init => LedgerInv
  BY LedgerInit
<1>3. Spec => []FreshenInv
  BY FreshenInvariant DEF DatesOnly
<1>. QED
  BY <1>1, <1>2, <1>3, TypeCorrect, PTL DEF Spec

\* A record that was not deleted is exactly as readable as its least
\* restricted sighting.
THEOREM LeastRestricted ==
  ASSUME DatesOnly
  PROVE  Spec => []ClassificationIsLeast
<1>1. LedgerInv => ClassificationIsLeast
  BY DEF LedgerInv
<1>. QED
  BY <1>1, LedgerInvariant, PTL

\* A call returns only in a step that stores its sighting.
LEMMA DoneGrows ==
  ASSUME TypeOK, NEW r \in wire, Return(r)
  PROVE  Done' \in {Done, Done \cup {r.call}}
<1>1. r.call \in Calls
  BY DEF TypeOK, Request
<1>2. CASE Current(r)
  BY <1>1, <1>2 DEF Return, Done, TypeOK
<1>3. CASE ~Current(r)
  BY <1>3 DEF Return, Done
<1>. QED  BY <1>2, <1>3

LEMMA DoneStays ==
  ASSUME TypeOK, FreshenInv, [Next]_vars,
         \A r \in wire : ~UpdateApplied(r) /\ ~SaveAccepted(r)
  PROVE  Done' = Done
<1>1. ASSUME NEW c \in Calls, Get(c) PROVE Done' = Done
  BY <1>1 DEF Get, Done, TypeOK
<1>2. ASSUME NEW c \in Calls, Resend(c) PROVE Done' = Done
  BY <1>2 DEF Resend, Done
<1>3. ASSUME NEW r \in wire, Execute(r) PROVE Done' = Done
  <2>1. r.call \in Calls /\ r.kind \in {"update", "save"}
    BY DEF TypeOK, Request
  <2>2. ASSUME FallBackToSave(r), r.kind = "update" PROVE Done' = Done
    BY <2>1, <2>2 DEF FallBackToSave, Current, Done, TypeOK
  <2>3. CASE SaveConflict(r)
    BY <2>1, <2>3 DEF SaveConflict, Current, Done, TypeOK
  <2>. QED
    BY <1>3, <2>2, <2>3 DEF Execute, UpdateMissing, UpdateRefused
<1>4. CASE Delete
  BY <1>4 DEF Delete, callVars, Done
<1>5. CASE UNCHANGED vars
  BY <1>5 DEF vars, Done
<1>. QED
  BY <1>1, <1>2, <1>3, <1>4, <1>5 DEF Next, AllDone

(***************************************************************************)
(* The calls of save_or_freshen_file implement the ledger of sightings:    *)
(* every step is one sighting, or changes nothing a caller can see.        *)
(***************************************************************************)
THEOREM ImplementsLedger ==
  ASSUME DatesOnly
  PROVE  Spec => LedgerSpec
<1>. DEFINE abs == [c \in Calls |-> [cls |-> input[c].cls, exp |-> input[c].exp]]
<1>1. Init => Ledger!Init
  <2>. SUFFICES ASSUME Init PROVE Ledger!Init
    OBVIOUS
  <2>1. abs \in [Calls -> [cls: SUBSET Markings, exp: CallExpiries]]
    BY DEF Init, Input, Class
  <2>2. LedgerEntry(hot) = Absent /\ Done = {}
    BY DEF Init, LedgerEntry, Done
  <2>. QED  BY <2>1, <2>2 DEF Ledger!Init
<1>2. ASSUME TypeOK, FreshenInv, LedgerInv, [Next]_vars
      PROVE  [Ledger!Next]_(Ledger!vars)
  <2>0. abs' = abs
    <3>1. input' = input
      BY <1>2 DEF Next, Get, Resend, Execute, UpdateApplied, UpdateMissing,
                  UpdateRefused, SaveAccepted, SaveConflict, Delete, AllDone, vars
    <3>. QED  BY <3>1
  <2>1. ASSUME NEW r \in wire, UpdateApplied(r) \/ SaveAccepted(r)
        PROVE  Ledger!Next
    <3>1. r.call \in Calls
      BY <1>2 DEF TypeOK, Request
    <3>2. abs[r.call] = [cls |-> input[r.call].cls, exp |-> input[r.call].exp]
      BY <3>1
    <3>3. LedgerEntry(hot') = Ledger!Sighted(LedgerEntry(hot), abs[r.call])
      BY <1>2, <2>1, <3>2, StoredIsSighting
    <3>4. Done' \in {Done, Done \cup {r.call}}
      BY <1>2, <2>1, DoneGrows DEF UpdateApplied, SaveAccepted
    <3>5. LedgerEntry(hot)' = LedgerEntry(hot')
      BY DEF LedgerEntry
    <3>. QED
      BY <2>0, <3>1, <3>3, <3>4, <3>5 DEF Ledger!Next, Ledger!Sight
  <2>2. CASE \A r \in wire : ~UpdateApplied(r) /\ ~SaveAccepted(r)
    <3>1. Done' = Done
      BY <1>2, <2>2, DoneStays
    <3>2. hot' = hot
      BY <1>2, <2>2
      DEF Next, Get, Resend, Execute, UpdateMissing, UpdateRefused,
          SaveConflict, Delete, AllDone, vars, docVars, LedgerInv, DatesOnly
    <3>3. LedgerEntry(hot)' = LedgerEntry(hot)
      BY <3>2 DEF LedgerEntry
    <3>. QED  BY <2>0, <3>1, <3>3 DEF Ledger!vars
  <2>. QED  BY <2>1, <2>2
<1>. QED
  BY <1>1, <1>2, TypeCorrect, FreshenInvariant, LedgerInvariant, PTL
  DEF Spec, LedgerSpec, Ledger!Spec, DatesOnly
=============================================================================
