---------------------------- MODULE BackupProofs ---------------------------
(***************************************************************************)
(* The distributed backup for any documents and references between them,   *)
(* any number of workers and any errors: the stop tokens are conserved,    *)
(* and a backup that returns without a bucket error is complete.           *)
(***************************************************************************)
EXTENDS DistributedBackup, FiniteSetTheorems, SequenceTheorems, TLAPS

----------------------------------------------------------------------------
\* Queues.

Has(m, q) == \E i \in DOMAIN q : q[i] = m

LEMMA AppendHas ==
  ASSUME NEW S, NEW q \in Seq(S), NEW x \in S
  PROVE  /\ Append(q, x) \in Seq(S)
         /\ \A m : Has(m, Append(q, x)) <=> Has(m, q) \/ m = x
<1>1. /\ Append(q, x) \in Seq(S) /\ Len(Append(q, x)) = Len(q) + 1
      /\ \A i \in 1 .. Len(q) : Append(q, x)[i] = q[i]
      /\ Append(q, x)[Len(q) + 1] = x
  BY AppendProperties
<1>2. /\ DOMAIN q = 1 .. Len(q) /\ Len(q) \in Nat
      /\ DOMAIN Append(q, x) = 1 .. Len(q) + 1
  BY <1>1, LenProperties
<1>3. \A i : i \in 1 .. Len(q) + 1 <=> i \in 1 .. Len(q) \/ i = Len(q) + 1
  BY <1>2
<1> QED
  BY <1>1, <1>2, <1>3 DEF Has

LEMMA TailHas ==
  ASSUME NEW S, NEW q \in Seq(S), q # <<>>
  PROVE  /\ Head(q) \in S /\ Tail(q) \in Seq(S)
         /\ \A m : Has(m, q) <=> Has(m, Tail(q)) \/ m = Head(q)
<1>1. /\ Head(q) \in S /\ Tail(q) \in Seq(S) /\ Len(Tail(q)) = Len(q) - 1
      /\ \A i \in 1 .. Len(Tail(q)) : Tail(q)[i] = q[i + 1]
  BY HeadTailProperties
<1>2. /\ DOMAIN q = 1 .. Len(q) /\ Len(q) \in Nat \ {0}
      /\ DOMAIN Tail(q) = 1 .. Len(q) - 1
  BY <1>1, LenProperties, EmptySeq
<1>3. Head(q) = q[1]
  OBVIOUS
<1>4. ASSUME NEW m, Has(m, q), m # Head(q) PROVE Has(m, Tail(q))
  <2>1. PICK i \in 1 .. Len(q) : q[i] = m
    BY <1>2, <1>4 DEF Has
  <2>2. i - 1 \in 1 .. Len(q) - 1 /\ (i - 1) + 1 = i
    BY <1>2, <1>3, <1>4, <2>1
  <2> QED
    BY <1>1, <1>2, <2>1, <2>2 DEF Has
<1>5. ASSUME NEW m, Has(m, Tail(q)) PROVE Has(m, q)
  <2>1. PICK i \in 1 .. Len(q) - 1 : Tail(q)[i] = m
    BY <1>2, <1>5 DEF Has
  <2>2. i + 1 \in 1 .. Len(q)
    BY <1>2, <2>1
  <2> QED
    BY <1>1, <1>2, <2>1, <2>2 DEF Has
<1>6. Has(Head(q), q)
  BY <1>2, <1>3 DEF Has
<1> QED
  BY <1>1, <1>4, <1>5, <1>6

LEMMA CountIsNat ==
  ASSUME NEW S, NEW q \in Seq(S), NEW m
  PROVE  /\ IsFiniteSet({i \in DOMAIN q : q[i] = m})
         /\ Count(q, m) \in Nat
         /\ Count(q, m) = 0 <=> ~ Has(m, q)
<1> DEFINE P == {i \in DOMAIN q : q[i] = m}
<1>1. DOMAIN q = 1 .. Len(q) /\ Len(q) \in Nat
  BY LenProperties
<1>2. P \in SUBSET (1 .. Len(q)) /\ IsFiniteSet(1 .. Len(q))
  BY <1>1, FS_Interval
<1>3. IsFiniteSet(P)
  BY <1>2, FS_Subset
<1>4. Cardinality(P) \in Nat /\ (Cardinality(P) = 0 <=> P = {})
  BY <1>3, FS_CardinalityType, FS_EmptySet
<1>5. P = {} <=> ~ Has(m, q)
  BY DEF Has
<1> QED
  BY <1>3, <1>4, <1>5 DEF Count

LEMMA CountAppend ==
  ASSUME NEW S, NEW q \in Seq(S), NEW x \in S, NEW m
  PROVE  Count(Append(q, x), m) = Count(q, m) + (IF x = m THEN 1 ELSE 0)
<1> DEFINE P == {i \in DOMAIN q : q[i] = m}
           r == Append(q, x)
<1>1. /\ Len(r) = Len(q) + 1 /\ r \in Seq(S)
      /\ \A i \in 1 .. Len(q) : r[i] = q[i]
      /\ r[Len(q) + 1] = x
  BY AppendProperties
<1>2. /\ DOMAIN q = 1 .. Len(q) /\ Len(q) \in Nat
      /\ DOMAIN r = 1 .. Len(q) + 1
  BY <1>1, LenProperties
<1>3. \A i : i \in 1 .. Len(q) + 1 <=> i \in 1 .. Len(q) \/ i = Len(q) + 1
  BY <1>2
<1>4. IsFiniteSet(P) /\ Cardinality(P) \in Nat
  BY CountIsNat, FS_CardinalityType
<1>5. Len(q) + 1 \notin P
  BY <1>2
<1> HIDE DEF r
<1>6. CASE x = m
  <2>1. {i \in DOMAIN r : r[i] = m} = P \cup {Len(q) + 1}
    BY <1>1, <1>2, <1>3, <1>6
  <2> HIDE DEF P
  <2>2. Cardinality(P \cup {Len(q) + 1}) = Cardinality(P) + 1
    BY <1>4, <1>5, FS_AddElement
  <2>3. Count(q, m) = Cardinality(P) /\ Count(r, m) = Cardinality(P \cup {Len(q) + 1})
    BY <2>1 DEF Count, P
  <2> QED
    BY <1>4, <1>6, <2>2, <2>3 DEF r
<1>7. CASE x # m
  <2>1. {i \in DOMAIN r : r[i] = m} = P
    BY <1>1, <1>2, <1>3, <1>7
  <2>2. Count(q, m) = Cardinality(P) /\ Count(r, m) = Cardinality(P)
    BY <2>1 DEF Count
  <2> HIDE DEF P
  <2> QED
    BY <1>4, <1>7, <2>2 DEF r
<1> QED
  BY <1>6, <1>7

LEMMA CountTail ==
  ASSUME NEW S, NEW q \in Seq(S), q # <<>>, NEW m
  PROVE  Count(q, m) = Count(Tail(q), m) + (IF Head(q) = m THEN 1 ELSE 0)
<1> DEFINE P == {i \in DOMAIN q : q[i] = m}
           R == {i \in DOMAIN Tail(q) : Tail(q)[i] = m}
           shift == [i \in P \ {1} |-> i - 1]
<1>1. /\ Tail(q) \in Seq(S) /\ Len(Tail(q)) = Len(q) - 1
      /\ \A i \in 1 .. Len(Tail(q)) : Tail(q)[i] = q[i + 1]
  BY HeadTailProperties
<1>2. /\ DOMAIN q = 1 .. Len(q) /\ Len(q) \in Nat \ {0}
      /\ DOMAIN Tail(q) = 1 .. Len(q) - 1
  BY <1>1, LenProperties, EmptySeq
<1>3. Head(q) = q[1]
  OBVIOUS
<1>4. IsFiniteSet(P) /\ Cardinality(P) \in Nat /\ IsFiniteSet(R) /\ Cardinality(R) \in Nat
  <2>1. IsFiniteSet(P) /\ IsFiniteSet(R)
    BY <1>1, CountIsNat
  <2> HIDE DEF P, R
  <2> QED
    BY <2>1, FS_CardinalityType
<1>5. \A i \in P \ {1} : i - 1 \in R /\ i \in Int
  BY <1>1, <1>2
<1>6. \A j \in R : j + 1 \in P \ {1} /\ (j + 1) - 1 = j
  BY <1>1, <1>2
<1> HIDE DEF P, R
<1>7. shift \in Bijection(P \ {1}, R)
  <2>1. shift \in [P \ {1} -> R]
    BY <1>5
  <2>2. \A i, j \in P \ {1} : shift[i] = shift[j] => i = j
    BY <1>5
  <2>3. \A j \in R : \E i \in P \ {1} : shift[i] = j
    BY <1>6
  <2> HIDE DEF shift
  <2> QED
    BY <2>1, <2>2, <2>3 DEF Bijection, Injection, Surjection, IsInjective
<1>8. IsFiniteSet(P \ {1}) /\ Cardinality(P \ {1}) = Cardinality(P) - (IF 1 \in P THEN 1 ELSE 0)
  <2>1. CASE 1 \in P
    BY <1>4, <2>1, FS_RemoveElement
  <2>2. CASE 1 \notin P
    BY <1>4, <2>2, FS_RemoveElement
  <2> QED
    BY <2>1, <2>2
<1>9. Cardinality(R) = Cardinality(P \ {1})
  BY <1>7, <1>8, FS_Bijection DEF ExistsBijection
<1>10. 1 \in P <=> Head(q) = m
  BY <1>2, <1>3 DEF P
<1>11. Count(q, m) = Cardinality(P) /\ Count(Tail(q), m) = Cardinality(R)
  BY DEF Count, P, R
<1> QED
  BY <1>4, <1>8, <1>9, <1>10, <1>11

LEMMA CountEmpty == \A m : Count(<<>>, m) = 0
<1> TAKE m
<1>1. {i \in DOMAIN <<>> : <<>>[i] = m} = {}
  OBVIOUS
<1> QED
  BY <1>1, FS_EmptySet DEF Count

----------------------------------------------------------------------------
\* Types.

LEMMA NoDocIsDoc == NoDoc \in Docs
BY BackupAssumption DEF NoDoc

LEMMA BackupTypeInit == Init => TypeOK
<1> SUFFICES ASSUME Init PROVE TypeOK
  OBVIOUS
<1>1. /\ Cardinality(Workers) \in Nat
      /\ Cardinality(Workers) \in 0 .. Cardinality(Workers)
      /\ 0 \in 0 .. Cardinality(Workers)
  BY BackupAssumption, FS_CardinalityType
<1>2. Found \in Seq(Docs)
  BY BackupAssumption
<1> QED
  BY <1>1, <1>2, NoDocIsDoc DEF Init, TypeOK

LEMMA BackupTypeWorker ==
  ASSUME TypeOK, NEW w \in Workers, WorkerStep(w)
  PROVE  TypeOK'
<1>0. /\ workerQueue # <<>> => /\ Tail(workerQueue) \in Seq(Docs \cup {Stop})
                               /\ Head(workerQueue) \in Docs \cup {Stop}
      /\ \A x \in Docs \cup {Stop} : Append(workerQueue, x) \in Seq(Docs \cup {Stop})
      /\ \A x \in {"ok", "missing", "error", "stopped"} :
           Append(doneQueue, x) \in Seq({"ok", "missing", "error", "stopped"})
  BY AppendHas, TailHas DEF TypeOK
<1> USE DEF At, mainVars, doneVars, queues
<1>1. CASE PopStop(w)
  BY <1>0, <1>1, NoDocIsDoc DEF PopStop, TypeOK
<1>2. CASE Requeue(w)
  BY <1>0, <1>2, NoDocIsDoc DEF Requeue, TypeOK
<1>3. CASE PopNone(w)
  BY <1>0, <1>3, NoDocIsDoc DEF PopNone, TypeOK
<1>4. CASE PopDoc(w)
  BY <1>0, <1>4, NoDocIsDoc DEF PopDoc, TypeOK
<1>5. CASE Get(w)
  <2>1. Followed(doc[w]) \in SUBSET Docs
    BY BackupAssumption DEF Followed, TypeOK
  <2> QED
    BY <1>5, <2>1 DEF Get, TypeOK
<1>6. CASE AddKey(w)
  BY <1>0, <1>6, NoDocIsDoc DEF AddKey, TypeOK
<1>7. CASE PushKey(w)
  BY <1>0, <1>7, NoDocIsDoc DEF PushKey, TypeOK
<1>8. CASE Write(w)
  BY <1>0, <1>8, NoDocIsDoc DEF Write, TypeOK
<1>9. CASE Raise(w)
  BY <1>0, <1>9, NoDocIsDoc DEF Raise, TypeOK
<1>10. CASE Report(w)
  BY <1>0, <1>10, NoDocIsDoc DEF Report, TypeOK
<1>11. CASE ReportStopped(w)
  BY <1>0, <1>11, NoDocIsDoc DEF ReportStopped, TypeOK
<1>12. CASE \E k \in Docs : FollowKey(w, k)
  BY <1>12, NoDocIsDoc DEF FollowKey, TypeOK
<1> QED
  BY <1>1, <1>2, <1>3, <1>4, <1>5, <1>6, <1>7, <1>8, <1>9, <1>10, <1>11, <1>12 DEF WorkerStep

LEMMA BackupTypeMain ==
  ASSUME TypeOK, MainStep
  PROVE  TypeOK'
<1>0. /\ left # <<>> => Tail(left) \in Seq(Docs) /\ Head(left) \in Docs
      /\ \A x \in Docs \cup {Stop} : Append(workerQueue, x) \in Seq(Docs \cup {Stop})
  BY AppendHas, TailHas DEF TypeOK
<1> USE DEF queues, workerVars, mainVars, doneVars
<1>1. CASE PushFound
  BY <1>0, <1>1 DEF PushFound, TypeOK
<1>2. CASE BucketFails
  <2>1. PICK n \in DOMAIN left : left' = SubSeq(left, n + 1, Len(left))
    BY <1>2 DEF BucketFails
  <2>2. left' \in Seq(Docs)
    <3>1. DOMAIN left = 1 .. Len(left) /\ Len(left) \in Nat
      BY LenProperties DEF TypeOK
    <3>2. \A i \in n + 1 .. Len(left) : left[i] \in Docs
      BY <3>1, ElementOfSeq DEF TypeOK
    <3> QED
      BY <2>1, <3>1, <3>2, SubSeqProperties
  <2>3. Head(left) \in Docs /\ bucketError' = bucketError \cup {BucketOf[Head(left)]}
    BY <1>0, <1>2 DEF BucketFails
  <2>4. bucketError' \subseteq {BucketOf[d] : d \in Docs}
    BY <2>3 DEF TypeOK
  <2>5. mpc' = "terminate" /\ workerQueue' = <<>> /\ doneQueue' = <<>> /\ hash' = {}
    BY <1>2 DEF BucketFails
  <2>6. UNCHANGED <<workerVars, tokens, doneVars>>
    BY <1>2 DEF BucketFails
  <2> QED
    BY <2>2, <2>4, <2>5, <2>6 DEF TypeOK
<1>3. CASE Terminate
  BY <1>3 DEF Terminate, TypeOK
<1>4. CASE PushStop
  <2>1. Cardinality(Workers) \in Nat
    BY BackupAssumption, FS_CardinalityType
  <2>2. tokens + 1 \in 0 .. Cardinality(Workers)
    BY <1>4, <2>1 DEF PushStop, TypeOK
  <2> QED
    BY <1>0, <1>4, <2>2 DEF PushStop, TypeOK
<1>5. CASE Join
  BY <1>5 DEF Join, TypeOK
<1> QED
  BY <1>1, <1>2, <1>3, <1>4, <1>5 DEF MainStep

LEMMA BackupTypeDone ==
  ASSUME TypeOK, DoneStep
  PROVE  TypeOK'
<1> USE DEF queues, workerVars, mainVars
<1>1. CASE DonePop
  <2>1. Cardinality(Workers) \in Nat
    BY BackupAssumption, FS_CardinalityType
  <2>2. running' \in 0 .. Cardinality(Workers)
    BY <1>1, <2>1 DEF DonePop, TypeOK
  <2>3. Tail(doneQueue) \in Seq({"ok", "missing", "error", "stopped"})
    BY <1>1, TailHas DEF DonePop, TypeOK
  <2>4. mapCount' \in Nat /\ missingCount' \in Nat /\ errorCount' \in Nat
    BY <1>1 DEF DonePop, TypeOK
  <2> QED
    BY <1>1, <2>2, <2>3, <2>4 DEF DonePop, TypeOK
<1>2. CASE DoneEnd
  BY <1>2 DEF DoneEnd, TypeOK
<1> QED
  BY <1>1, <1>2 DEF DoneStep

LEMMA BackupTypeStep == TypeOK /\ [Next]_vars => TypeOK'
<1> SUFFICES ASSUME TypeOK, [Next]_vars PROVE TypeOK'
  OBVIOUS
<1>1. CASE UNCHANGED vars
  BY <1>1 DEF vars, queues, workerVars, mainVars, doneVars, TypeOK
<1> QED
  BY <1>1, BackupTypeWorker, BackupTypeMain, BackupTypeDone DEF Next, Returned

----------------------------------------------------------------------------
\* The stop tokens.

\* No token is anywhere while the main process still pushes documents.
TokensLate ==
  left # <<>> \/ mpc = "terminate" =>
    /\ tokens = 0 /\ ~ Has(Stop, workerQueue)
    /\ \A w \in Workers : ~ stopping[w] /\ wpc[w] # "requeue"

TokensInv == TypeOK /\ TokensLate /\ TokensConserved

Stoppers == {w \in Workers : stopping[w]}
Returning == {w \in Workers : wpc[w] = "requeue"}

LEMMA WorkerSets ==
  /\ Stoppers \in SUBSET Workers /\ Stoppers' \in SUBSET Workers
  /\ Returning \in SUBSET Workers /\ Returning' \in SUBSET Workers
  /\ \A S \in SUBSET Workers : IsFiniteSet(S) /\ Cardinality(S) \in Nat
<1>1. \A S \in SUBSET Workers : IsFiniteSet(S) /\ Cardinality(S) \in Nat
  <2> TAKE S \in SUBSET Workers
  <2>1. IsFiniteSet(S)
    BY BackupAssumption, FS_Subset
  <2> QED
    BY <2>1, FS_CardinalityType
<1> QED
  BY <1>1 DEF Stoppers, Returning

\* The same, with the sets by their names.
LEMMA TokensNamed ==
  TokensConserved <=>
    (dpc = "run" => tokens = Count(workerQueue, Stop) + Cardinality(Stoppers)
                                                        + Cardinality(Returning))
BY DEF TokensConserved, Stoppers, Returning

LEMMA TokensInit == Init => TokensInv
<1> SUFFICES ASSUME Init PROVE TokensInv
  OBVIOUS
<1>1. Stoppers = {} /\ Returning = {}
  BY DEF Init, Stoppers, Returning
<1>2. Cardinality(Stoppers) = 0 /\ Cardinality(Returning) = 0 /\ Count(workerQueue, Stop) = 0
  BY <1>1, FS_EmptySet, CountEmpty DEF Init
<1>3. TokensConserved
  BY <1>2, TokensNamed DEF Init
<1>4. TokensLate
  BY DEF Init, TokensLate, Has
<1> QED
  BY <1>3, <1>4, BackupTypeInit DEF TokensInv

\* A step that moves no token: the queue may gain or lose documents, no worker
\* begins or stops returning a token.
LEMMA TokensRest ==
  ASSUME TokensInv, TypeOK',
         UNCHANGED <<tokens, stopping, dpc>>,
         left' = left \/ left # <<>>, mpc' = mpc \/ mpc' # "terminate",
         \A w \in Workers : wpc'[w] = "requeue" <=> wpc[w] = "requeue",
         Count(workerQueue', Stop) = Count(workerQueue, Stop)
  PROVE  TokensInv'
<1>1. Has(Stop, workerQueue') <=> Has(Stop, workerQueue)
  <2>1. workerQueue \in Seq(Docs \cup {Stop}) /\ workerQueue' \in Seq(Docs \cup {Stop})
    BY DEF TokensInv, TypeOK
  <2>2. /\ Count(workerQueue, Stop) = 0 <=> ~ Has(Stop, workerQueue)
        /\ Count(workerQueue', Stop) = 0 <=> ~ Has(Stop, workerQueue')
    BY <2>1, CountIsNat
  <2> QED
    BY <2>2
<1>2. TokensLate'
  BY <1>1 DEF TokensInv, TokensLate
<1>3. Stoppers' = Stoppers /\ Returning' = Returning
  BY DEF Stoppers, Returning
<1>4. TokensConserved
  BY DEF TokensInv
<1>5. TokensConserved'
  BY <1>3, <1>4, TokensNamed DEF TokensConserved, Stoppers, Returning
<1> QED
  BY <1>2, <1>5 DEF TokensInv

LEMMA TokensPopStop ==
  ASSUME TokensInv, TypeOK', NEW w \in Workers, PopStop(w)
  PROVE  TokensInv'
<1>1. /\ workerQueue # <<>> /\ Head(workerQueue) = Stop /\ wpc[w] = "pop"
      /\ workerQueue' = Tail(workerQueue)
      /\ stopping' = [stopping EXCEPT ![w] = TRUE]
      /\ wpc' = [wpc EXCEPT ![w] = IF stopping[w] THEN "requeue" ELSE "pop"]
      /\ UNCHANGED <<left, mpc, tokens, dpc>>
  BY DEF PopStop, mainVars, doneVars
<1>2. TypeOK /\ TokensLate /\ TokensConserved
  BY DEF TokensInv
<1>3. Has(Stop, workerQueue)
  BY <1>1, <1>2, TailHas DEF TypeOK
<1>4. TokensLate'
  BY <1>1, <1>2, <1>3 DEF TokensLate
<1>5. Count(workerQueue, Stop) = Count(workerQueue', Stop) + 1
  BY <1>1, <1>2, CountTail DEF TypeOK
<1>6. Count(workerQueue', Stop) \in Nat /\ Count(workerQueue, Stop) \in Nat
  BY <1>2, CountIsNat DEF TypeOK
<1>7. Cardinality(Stoppers') + Cardinality(Returning')
        = Cardinality(Stoppers) + Cardinality(Returning) + 1
  <2>1. /\ w \in Stoppers' /\ \A v \in Workers \ {w} : v \in Stoppers' <=> v \in Stoppers
        /\ w \in Stoppers <=> stopping[w]
    BY <1>1, <1>2 DEF Stoppers, TypeOK
  <2>2. /\ \A v \in Workers \ {w} : v \in Returning' <=> v \in Returning
        /\ w \in Returning' <=> stopping[w]
        /\ w \notin Returning
    BY <1>1, <1>2 DEF Returning, TypeOK
  <2>3. CASE stopping[w]
    <3>1. Stoppers' = Stoppers /\ Returning' = Returning \cup {w}
      BY <2>1, <2>2, <2>3, WorkerSets
    <3>2. Cardinality(Returning') = Cardinality(Returning) + 1
      BY <2>2, <3>1, WorkerSets, FS_AddElement
    <3> QED
      BY <3>1, <3>2, WorkerSets
  <2>4. CASE ~ stopping[w]
    <3>1. Returning' = Returning /\ Stoppers' = Stoppers \cup {w}
      BY <2>1, <2>2, <2>4, WorkerSets
    <3>2. Cardinality(Stoppers') = Cardinality(Stoppers) + 1
      BY <2>1, <2>4, <3>1, WorkerSets, FS_AddElement
    <3> QED
      BY <3>1, <3>2, WorkerSets
  <2> QED
    BY <2>3, <2>4
<1>8. TokensConserved'
  <2>1. dpc = "run" => tokens = Count(workerQueue, Stop) + Cardinality(Stoppers)
                                                          + Cardinality(Returning)
    BY <1>2, TokensNamed
  <2>2. /\ Cardinality(Stoppers) \in Nat /\ Cardinality(Returning) \in Nat
        /\ Cardinality(Stoppers') \in Nat /\ Cardinality(Returning') \in Nat
    BY WorkerSets
  <2>3. dpc' = "run" => tokens' = Count(workerQueue', Stop) + Cardinality(Stoppers')
                                                           + Cardinality(Returning')
    <3>1. tokens' = tokens /\ dpc' = dpc
      BY <1>1
    <3>2. \A a, b, c, d, e, f \in Nat : a = b + 1 /\ d + f = c + e + 1 => a + c + e = b + d + f
      OBVIOUS
    <3>3. Count(workerQueue, Stop) + Cardinality(Stoppers) + Cardinality(Returning)
            = Count(workerQueue', Stop) + Cardinality(Stoppers') + Cardinality(Returning')
      BY <1>5, <1>6, <1>7, <2>2, <3>2
    <3> QED
      BY <2>1, <3>1, <3>3
  <2> QED
    BY <2>3 DEF TokensConserved, Stoppers, Returning
<1> QED
  BY <1>4, <1>8 DEF TokensInv

\* A token that is pushed is counted, a document is not.
LEMMA QueueCounts ==
  ASSUME TypeOK
  PROVE  /\ Count(workerQueue, Stop) \in Nat
         /\ Count(Append(workerQueue, Stop), Stop) = Count(workerQueue, Stop) + 1
         /\ \A d \in Docs : Count(Append(workerQueue, d), Stop) = Count(workerQueue, Stop)
<1> DEFINE S == Docs \cup {Stop}
<1>1. workerQueue \in Seq(S) /\ Stop \in S /\ \A d \in Docs : d \in S /\ d # Stop
  BY BackupAssumption DEF TypeOK
<1> HIDE DEF S
<1>2. Count(workerQueue, Stop) \in Nat
  BY <1>1, CountIsNat
<1>3. Count(Append(workerQueue, Stop), Stop) = Count(workerQueue, Stop) + 1
  BY <1>1, CountAppend
<1>4. \A d \in Docs : Count(Append(workerQueue, d), Stop) = Count(workerQueue, Stop)
  <2> TAKE d \in Docs
  <2>1. Count(Append(workerQueue, d), Stop)
          = Count(workerQueue, Stop) + (IF d = Stop THEN 1 ELSE 0)
    BY <1>1, CountAppend
  <2> QED
    BY <1>1, <1>2, <2>1
<1> QED
  BY <1>2, <1>3, <1>4

LEMMA TokensRequeue ==
  ASSUME TokensInv, TypeOK', NEW w \in Workers, Requeue(w)
  PROVE  TokensInv'
<1>1. /\ wpc[w] = "requeue" /\ wpc' = [wpc EXCEPT ![w] = "pop"]
      /\ workerQueue' = Append(workerQueue, Stop)
      /\ UNCHANGED <<stopping, left, mpc, tokens, dpc>>
  BY DEF Requeue, At, mainVars, doneVars
<1>2. TypeOK /\ TokensLate /\ TokensConserved
  BY DEF TokensInv
<1>3. TokensLate'
  BY <1>1, <1>2 DEF TokensLate
<1>4. Count(workerQueue', Stop) = Count(workerQueue, Stop) + 1
  BY <1>1, <1>2, QueueCounts
<1>5. Count(workerQueue', Stop) \in Nat /\ Count(workerQueue, Stop) \in Nat
  BY <1>2, CountIsNat DEF TypeOK
<1>6. Stoppers' = Stoppers
  BY <1>1 DEF Stoppers
<1>7. /\ \A v \in Workers \ {w} : v \in Returning' <=> v \in Returning
      /\ w \notin Returning' /\ w \in Returning
  BY <1>1, <1>2 DEF Returning, TypeOK
<1>8. Returning' = Returning \ {w}
  BY <1>7, WorkerSets
<1>9. Cardinality(Returning') = Cardinality(Returning) - 1
  BY <1>7, <1>8, WorkerSets, FS_RemoveElement
<1>10. \A a, b, c, d, e \in Nat : b = a + 1 /\ d = c - 1 => a + e + c = b + e + d
  OBVIOUS
<1>11. Count(workerQueue, Stop) + Cardinality(Stoppers) + Cardinality(Returning)
         = Count(workerQueue', Stop) + Cardinality(Stoppers) + Cardinality(Returning')
  BY <1>4, <1>5, <1>9, <1>10, WorkerSets
<1>12. TokensConserved'
  <2>1. dpc = "run" => tokens = Count(workerQueue, Stop) + Cardinality(Stoppers)
                                                          + Cardinality(Returning)
    BY <1>2, TokensNamed
  <2>2. dpc' = "run" => tokens' = Count(workerQueue', Stop) + Cardinality(Stoppers')
                                                           + Cardinality(Returning')
    BY <1>1, <1>6, <1>11, <2>1
  <2> QED
    BY <2>2 DEF TokensConserved, Stoppers, Returning
<1> QED
  BY <1>3, <1>12 DEF TokensInv

LEMMA TokensPushStop ==
  ASSUME TokensInv, TypeOK', PushStop
  PROVE  TokensInv'
<1>1. /\ left = <<>> /\ mpc = "search" /\ tokens' = tokens + 1
      /\ workerQueue' = Append(workerQueue, Stop)
      /\ UNCHANGED <<stopping, wpc, left, mpc, dpc>>
  BY DEF PushStop, workerVars, doneVars
<1>2. TypeOK /\ TokensLate /\ TokensConserved
  BY DEF TokensInv
<1>3. TokensLate'
  BY <1>1, <1>2 DEF TokensLate
<1>4. Count(workerQueue', Stop) = Count(workerQueue, Stop) + 1
  BY <1>1, <1>2, QueueCounts
<1>5. Count(workerQueue', Stop) \in Nat /\ Count(workerQueue, Stop) \in Nat
  BY <1>2, CountIsNat DEF TypeOK
<1>6. Stoppers' = Stoppers /\ Returning' = Returning
  BY <1>1 DEF Stoppers, Returning
<1>7. \A a, b, c, d \in Nat : b = a + 1 => (a + c + d) + 1 = b + c + d
  OBVIOUS
<1>8. (Count(workerQueue, Stop) + Cardinality(Stoppers) + Cardinality(Returning)) + 1
         = Count(workerQueue', Stop) + Cardinality(Stoppers) + Cardinality(Returning)
  BY <1>4, <1>5, <1>7, WorkerSets
<1>9. TokensConserved'
  <2>1. dpc = "run" => tokens = Count(workerQueue, Stop) + Cardinality(Stoppers)
                                                          + Cardinality(Returning)
    BY <1>2, TokensNamed
  <2>2. dpc' = "run" => tokens' = Count(workerQueue', Stop) + Cardinality(Stoppers')
                                                           + Cardinality(Returning')
    BY <1>1, <1>6, <1>8, <2>1
  <2> QED
    BY <2>2 DEF TokensConserved, Stoppers, Returning
<1> QED
  BY <1>3, <1>9 DEF TokensInv

LEMMA TokensWorker ==
  ASSUME TokensInv, TypeOK', NEW w \in Workers, WorkerStep(w)
  PROVE  TokensInv'
<1>0. TypeOK /\ wpc \in [Workers -> {"pop", "requeue", "get", "follow", "add", "push", "report",
                                      "stopped", "done"}]
  BY DEF TokensInv, TypeOK
<1>1. CASE PopStop(w)
  BY <1>1, TokensPopStop
<1>2. CASE Requeue(w)
  BY <1>2, TokensRequeue
<1>3. CASE PopDoc(w)
  <2>1. Count(workerQueue', Stop) = Count(workerQueue, Stop)
    <3>1. Count(workerQueue, Stop) = Count(Tail(workerQueue), Stop)
                                       + (IF Head(workerQueue) = Stop THEN 1 ELSE 0)
      BY <1>0, <1>3, CountTail DEF PopDoc, TypeOK
    <3>2. workerQueue' = Tail(workerQueue) /\ Head(workerQueue) # Stop
      BY <1>3 DEF PopDoc
    <3>3. Count(workerQueue', Stop) \in Nat
      BY CountIsNat DEF TypeOK
    <3> QED
      BY <3>1, <3>2, <3>3
  <2>2. /\ UNCHANGED <<tokens, stopping, dpc, left, mpc>>
        /\ \A v \in Workers : wpc'[v] = "requeue" <=> wpc[v] = "requeue"
    BY <1>0, <1>3 DEF PopDoc, At, mainVars, doneVars
  <2> QED
    BY <2>1, <2>2, TokensRest
<1>4. CASE PushKey(w)
  <2>1. Count(workerQueue', Stop) = Count(workerQueue, Stop)
    <3>1. key[w] \in Docs /\ key[w] # Stop
      BY <1>0, BackupAssumption DEF TypeOK
    <3> QED
      BY <1>0, <1>4, <3>1, QueueCounts DEF PushKey
  <2>2. /\ UNCHANGED <<tokens, stopping, dpc, left, mpc>>
        /\ \A v \in Workers : wpc'[v] = "requeue" <=> wpc[v] = "requeue"
    BY <1>0, <1>4 DEF PushKey, At, mainVars, doneVars
  <2> QED
    BY <2>1, <2>2, TokensRest
<1>5. CASE \/ PopNone(w) \/ Get(w) \/ AddKey(w) \/ Write(w) \/ Raise(w) \/ Report(w)
           \/ ReportStopped(w) \/ \E k \in Docs : FollowKey(w, k)
  <2>1. UNCHANGED <<workerQueue, tokens, stopping, dpc, left, mpc>>
    BY <1>5 DEF PopNone, Get, AddKey, Write, Raise, Report, ReportStopped, FollowKey, queues,
                mainVars, doneVars
  <2>2. \A v \in Workers : wpc'[v] = "requeue" <=> wpc[v] = "requeue"
    BY <1>0, <1>5 DEF PopNone, Get, AddKey, Write, Raise, Report, ReportStopped, FollowKey, At
  <2> QED
    BY <2>1, <2>2, TokensRest
<1> QED
  BY <1>1, <1>2, <1>3, <1>4, <1>5 DEF WorkerStep

LEMMA TokensMain ==
  ASSUME TokensInv, TypeOK', MainStep
  PROVE  TokensInv'
<1>0. TypeOK /\ TokensLate /\ TokensConserved
  BY DEF TokensInv
<1>1. CASE PushFound
  <2>1. /\ left # <<>> /\ workerQueue' = Append(workerQueue, Head(left))
        /\ UNCHANGED <<tokens, stopping, wpc, dpc, mpc>>
    BY <1>1 DEF PushFound, workerVars, doneVars
  <2>2. Head(left) \in Docs /\ Head(left) # Stop
    BY <1>0, <2>1, TailHas, BackupAssumption DEF TypeOK
  <2>3. Count(workerQueue', Stop) = Count(workerQueue, Stop)
    BY <1>0, <2>1, <2>2, QueueCounts
  <2> QED
    BY <2>1, <2>3, TokensRest
<1>2. CASE BucketFails
  <2>1. left # <<>> /\ workerQueue' = <<>> /\ UNCHANGED <<tokens, stopping, wpc, dpc>>
    BY <1>2 DEF BucketFails, workerVars, doneVars
  <2>2. tokens = 0 /\ \A w \in Workers : ~ stopping[w] /\ wpc[w] # "requeue"
    BY <1>0, <2>1 DEF TokensLate
  <2>3. TokensLate'
    BY <2>1, <2>2 DEF TokensLate, Has
  <2>4. Stoppers' = {} /\ Returning' = {}
    BY <2>1, <2>2 DEF Stoppers, Returning
  <2>5. Cardinality(Stoppers') = 0 /\ Cardinality(Returning') = 0 /\ Count(workerQueue', Stop) = 0
    BY <2>1, <2>4, FS_EmptySet, CountEmpty
  <2>6. TokensConserved'
    BY <2>1, <2>2, <2>5 DEF TokensConserved, Stoppers, Returning
  <2> QED
    BY <2>3, <2>6 DEF TokensInv
<1>3. CASE Terminate
  <2>1. /\ mpc = "terminate" /\ mpc' = "search"
        /\ wpc' = IF Threads THEN wpc ELSE [w \in Workers |-> "done"]
        /\ UNCHANGED <<workerQueue, tokens, stopping, dpc, left>>
    BY <1>3 DEF Terminate, queues, doneVars
  <2>2. \A w \in Workers : wpc[w] # "requeue" /\ wpc'[w] # "requeue"
    BY <1>0, <2>1 DEF TokensLate
  <2> QED
    BY <2>1, <2>2, TokensRest
<1>4. CASE PushStop
  BY <1>4, TokensPushStop
<1>5. CASE Join
  <2>1. /\ mpc' = "returned"
        /\ UNCHANGED <<workerQueue, tokens, stopping, wpc, dpc, left>>
    BY <1>5 DEF Join, queues, workerVars, doneVars
  <2> QED
    BY <2>1, TokensRest
<1> QED
  BY <1>1, <1>2, <1>3, <1>4, <1>5 DEF MainStep

LEMMA TokensDone ==
  ASSUME TokensInv, TypeOK', DoneStep
  PROVE  TokensInv'
<1>1. CASE DonePop
  <2>1. UNCHANGED <<workerQueue, tokens, stopping, wpc, dpc, left, mpc>>
    BY <1>1 DEF DonePop, workerVars, mainVars
  <2> QED
    BY <2>1, TokensRest
<1>2. CASE DoneEnd
  <2>1. /\ workerQueue' = <<>> /\ dpc' = "done"
        /\ UNCHANGED <<tokens, stopping, wpc, left, mpc>>
    BY <1>2 DEF DoneEnd, workerVars, mainVars
  <2>2. TokensLate'
    BY <2>1 DEF TokensInv, TokensLate, Has
  <2>3. TokensConserved'
    BY <2>1 DEF TokensConserved
  <2> QED
    BY <2>2, <2>3 DEF TokensInv
<1> QED
  BY <1>1, <1>2 DEF DoneStep

LEMMA TokensStep == TokensInv /\ [Next]_vars => TokensInv'
<1> SUFFICES ASSUME TokensInv, [Next]_vars PROVE TokensInv'
  OBVIOUS
<1>1. TypeOK'
  BY BackupTypeStep DEF TokensInv
<1>2. CASE UNCHANGED vars
  BY <1>1, <1>2, TokensRest DEF vars, queues, workerVars, mainVars, doneVars
<1>3. CASE Returned
  BY <1>2, <1>3 DEF Returned
<1> QED
  BY <1>1, <1>2, <1>3, TokensWorker, TokensMain, TokensDone DEF Next

\* No stop token is lost or made up while the done thread runs, for any number
\* of workers, documents and errors: each is in the queue, has stopped one
\* worker or is about to be pushed back (backup and backup_worker).
THEOREM TokensAlwaysConserved == Spec => []TokensConserved
<1>1. TokensInv => TokensConserved
  BY DEF TokensInv
<1> QED
  BY <1>1, TokensInit, TokensStep, PTL DEF Spec

----------------------------------------------------------------------------
\* Completeness.

Busy(w) == wpc[w] \in {"get", "follow", "add", "push"}

\* A document is in the queue, in the hands of a worker or about to be pushed.
InFlight(d) ==
  \/ Has(d, workerQueue)
  \/ \E w \in Workers : \/ Busy(w) /\ doc[w] = d
                        \/ wpc[w] = "push" /\ key[w] = d

FoundAccounted ==
  \A d \in Range(Found) : Has(d, left) \/ InFlight(d) \/ Handled(d)

KeysAccounted == \A d \in hash : InFlight(d) \/ Handled(d)

WrittenFollowed == \A e \in Docs : written[e] > 0 => Followed(e) \subseteq hash

\* A worker on its way through the keys has noted those it no longer follows.
FollowingAll ==
  \A w \in Workers : wpc[w] \in {"follow", "add", "push"} =>
    \A k \in Followed(doc[w]) : k \in hash \cup follow[w] \/ (wpc[w] = "add" /\ key[w] = k)

\* Documents that are still to come have a worker that has not stopped.
SomeoneLeft ==
  left # <<>> \/ (\E d \in Docs : Has(d, workerQueue)) =>
    \E w \in Workers : wpc[w] \notin {"stopped", "done"}

NotDone == {w \in Workers : wpc[w] # "done"}
RunningExact == running = Cardinality(NotDone) + Count(doneQueue, "stopped")

Underway ==
  FoundAccounted /\ KeysAccounted /\ WrittenFollowed /\ FollowingAll /\ SomeoneLeft /\ RunningExact

Complete ==
  \A d \in Docs : d \in Range(Found) \/ (\E e \in Docs : written[e] > 0 /\ d \in Followed(e))
                    => Handled(d)

AllDone == left = <<>> /\ (\A w \in Workers : wpc[w] = "done") /\ Complete

MainPlace == (mpc = "terminate" => bucketError # {}) /\ (mpc = "returned" => dpc = "done")

BackupInv ==
  /\ TokensInv /\ MainPlace
  /\ bucketError = {} /\ dpc = "run" => Underway
  /\ bucketError = {} /\ dpc = "done" => AllDone

LEMMA BackupInvInit == Init => BackupInv
<1> SUFFICES ASSUME Init PROVE BackupInv
  OBVIOUS
<1>1. FoundAccounted
  <2> SUFFICES ASSUME NEW d \in Range(Found) PROVE Has(d, left)
    BY DEF FoundAccounted
  <2> QED
    BY DEF Range, Has, Init
<1>2. KeysAccounted /\ FollowingAll
  BY DEF Init, KeysAccounted, FollowingAll
<1>3. WrittenFollowed
  BY DEF Init, WrittenFollowed
<1>4. SomeoneLeft
  <2>1. PICK w \in Workers : TRUE
    BY BackupAssumption
  <2>2. wpc[w] \notin {"stopped", "done"}
    BY DEF Init
  <2> QED
    BY <2>2 DEF SomeoneLeft
<1>5. RunningExact
  <2>1. NotDone = Workers /\ Count(doneQueue, "stopped") = 0
    BY CountEmpty DEF Init, NotDone
  <2>2. Cardinality(Workers) \in Nat
    BY BackupAssumption, FS_CardinalityType
  <2> QED
    BY <2>1, <2>2 DEF Init, RunningExact
<1> QED
  BY <1>1, <1>2, <1>3, <1>4, <1>5, TokensInit DEF Init, BackupInv, MainPlace, Underway

LEMMA NotDoneSets ==
  /\ NotDone \in SUBSET Workers /\ NotDone' \in SUBSET Workers
  /\ \A S \in SUBSET Workers : IsFiniteSet(S) /\ Cardinality(S) \in Nat
BY WorkerSets DEF NotDone

\* A step of one worker keeps the invariant when it loses no document, notes no
\* key that is not in flight, and does the sums.
LEMMA WorkerKeeps ==
  ASSUME BackupInv, TokensInv', NEW w \in Workers, wpc[w] # "done",
         UNCHANGED <<mainVars, doneVars>>,
         \A d \in Docs : InFlight(d) => InFlight(d)' \/ Handled(d)',
         \A d \in Docs : Handled(d) => Handled(d)',
         \A d \in hash' : d \in hash \/ InFlight(d)',
         Underway => WrittenFollowed' /\ FollowingAll' /\ SomeoneLeft' /\ RunningExact'
  PROVE  BackupInv'
<1>1. UNCHANGED <<mpc, left, tokens, bucketError, dpc, running>>
  BY DEF mainVars, doneVars
<1>2. MainPlace'
  BY <1>1 DEF BackupInv, MainPlace
<1>3. ~ (bucketError' = {} /\ dpc' = "done")
  BY <1>1 DEF BackupInv, AllDone
<1>4. ASSUME bucketError' = {}, dpc' = "run" PROVE Underway'
  <2>1. Underway
    BY <1>1, <1>4 DEF BackupInv
  <2>2. Range(Found) \subseteq Docs /\ hash \subseteq Docs
    <3>1. \A i \in DOMAIN Found : Found[i] \in Docs
      BY BackupAssumption, LenProperties, ElementOfSeq
    <3>2. Range(Found) \subseteq Docs
      BY <3>1 DEF Range
    <3> QED
      BY <3>2 DEF BackupInv, TokensInv, TypeOK
  <2>3. FoundAccounted'
    <3>1. \A d \in Range(Found) : Has(d, left) \/ InFlight(d)' \/ Handled(d)'
      BY <2>1, <2>2 DEF Underway, FoundAccounted
    <3> QED
      BY <1>1, <3>1 DEF FoundAccounted
  <2>4. KeysAccounted'
    BY <2>1, <2>2 DEF Underway, KeysAccounted
  <2> QED
    BY <2>1, <2>3, <2>4 DEF Underway
<1> QED
  BY <1>2, <1>3, <1>4 DEF BackupInv

\* Where a worker stands, at the length the steps need it.
LEMMA WorkerTypes ==
  ASSUME BackupInv
  PROVE  /\ workerQueue \in Seq(Docs \cup {Stop})
         /\ doneQueue \in Seq({"ok", "missing", "error", "stopped"})
         /\ wpc \in [Workers -> {"pop", "requeue", "get", "follow", "add", "push", "report",
                                 "stopped", "done"}]
         /\ doc \in [Workers -> Docs] /\ key \in [Workers -> Docs]
         /\ follow \in [Workers -> SUBSET Docs] /\ written \in [Docs -> Nat]
         /\ report \in [Workers -> {"ok", "missing", "error"}]
         /\ \A d \in Docs : d # Stop
BY BackupAssumption DEF BackupInv, TokensInv, TypeOK

\* A step after which the worker goes on keeps the sums and someone who is left.
LEMMA GoesOn ==
  ASSUME BackupInv, NEW w \in Workers, NEW to \in {"pop", "requeue", "get", "follow", "add",
                                                   "push", "report"},
         wpc[w] \notin {"stopped", "done"}, wpc' = [wpc EXCEPT ![w] = to],
         UNCHANGED <<running, doneQueue>>
  PROVE  SomeoneLeft' /\ (RunningExact => RunningExact')
<1>1. wpc'[w] \notin {"stopped", "done"}
  BY WorkerTypes
<1>2. NotDone' = NotDone
  BY WorkerTypes DEF NotDone
<1> QED
  BY <1>1, <1>2 DEF SomeoneLeft, RunningExact

LEMMA BackupPopStop ==
  ASSUME BackupInv, TokensInv', NEW w \in Workers, PopStop(w)
  PROVE  BackupInv'
<1>1. /\ wpc[w] = "pop" /\ workerQueue # <<>> /\ Head(workerQueue) = Stop
      /\ workerQueue' = Tail(workerQueue)
      /\ wpc' = [wpc EXCEPT ![w] = IF stopping[w] THEN "requeue" ELSE "pop"]
      /\ UNCHANGED <<doneQueue, hash, doc, follow, key, written, raised, mainVars, doneVars>>
  BY DEF PopStop
<1>2. PICK to \in {"requeue", "pop"} : wpc' = [wpc EXCEPT ![w] = to]
  BY <1>1
<1>3. \A d \in Docs : Has(d, workerQueue) => Has(d, workerQueue')
  BY <1>1, WorkerTypes, TailHas
<1>4. \A v \in Workers : /\ wpc[v] \in {"get", "follow", "add", "push"} => wpc'[v] = wpc[v]
                         /\ wpc'[v] \in {"get", "follow", "add", "push"} => wpc'[v] = wpc[v]
  BY <1>1, <1>2, WorkerTypes
<1>5. \A d \in Docs : InFlight(d) => InFlight(d)'
  BY <1>1, <1>3, <1>4 DEF InFlight, Busy
<1>6. Underway => WrittenFollowed' /\ FollowingAll'
  BY <1>1, <1>4 DEF Underway, WrittenFollowed, FollowingAll
<1>7. SomeoneLeft' /\ (RunningExact => RunningExact')
  BY <1>1, <1>2, GoesOn DEF doneVars
<1> QED
  BY <1>1, <1>5, <1>6, <1>7, WorkerKeeps DEF Underway, Handled

LEMMA BackupRequeue ==
  ASSUME BackupInv, TokensInv', NEW w \in Workers, Requeue(w)
  PROVE  BackupInv'
<1>1. /\ wpc[w] = "requeue" /\ wpc' = [wpc EXCEPT ![w] = "pop"]
      /\ workerQueue' = Append(workerQueue, Stop)
      /\ UNCHANGED <<doneQueue, hash, doc, follow, key, written, raised, mainVars, doneVars>>
  BY DEF Requeue, At
<1>2. \A d \in Docs : Has(d, workerQueue) => Has(d, workerQueue')
  <2>1. Stop \in Docs \cup {Stop}
    OBVIOUS
  <2> HIDE DEF Stop
  <2> QED
    BY <1>1, <2>1, WorkerTypes, AppendHas
<1>3. \A v \in Workers : /\ wpc[v] \in {"get", "follow", "add", "push"} => wpc'[v] = wpc[v]
                         /\ wpc'[v] \in {"get", "follow", "add", "push"} => wpc'[v] = wpc[v]
  BY <1>1, WorkerTypes
<1>4. \A d \in Docs : InFlight(d) => InFlight(d)'
  BY <1>1, <1>2, <1>3 DEF InFlight, Busy
<1>5. Underway => WrittenFollowed' /\ FollowingAll'
  BY <1>1, <1>3 DEF Underway, WrittenFollowed, FollowingAll
<1>6. SomeoneLeft' /\ (RunningExact => RunningExact')
  BY <1>1, GoesOn DEF doneVars
<1> QED
  BY <1>1, <1>4, <1>5, <1>6, WorkerKeeps DEF Underway, Handled

\* A worker stops when the queue is empty and it has a token: by then all is
\* pushed, and what others still hold keeps them going.
LEMMA BackupPopNone ==
  ASSUME BackupInv, TokensInv', NEW w \in Workers, PopNone(w)
  PROVE  BackupInv'
<1>1. /\ wpc[w] = "pop" /\ wpc' = [wpc EXCEPT ![w] = "stopped"]
      /\ workerQueue = <<>> /\ stopping[w]
      /\ UNCHANGED <<workerQueue, doneQueue, hash, doc, follow, key, written, raised,
                     mainVars, doneVars>>
  BY DEF PopNone, At, queues
<1>2. \A v \in Workers : /\ wpc[v] \in {"get", "follow", "add", "push"} => wpc'[v] = wpc[v]
                         /\ wpc'[v] \in {"get", "follow", "add", "push"} => wpc'[v] = wpc[v]
  BY <1>1, WorkerTypes
<1>3. \A d \in Docs : InFlight(d) => InFlight(d)'
  BY <1>1, <1>2 DEF InFlight, Busy
<1>4. Underway => WrittenFollowed' /\ FollowingAll'
  BY <1>1, <1>2 DEF Underway, WrittenFollowed, FollowingAll
<1>5. left' = <<>> /\ \A d \in Docs : ~ Has(d, workerQueue')
  BY <1>1 DEF BackupInv, TokensInv, TokensLate, Has, mainVars
<1>6. NotDone' = NotDone
  BY <1>1, WorkerTypes DEF NotDone
<1>7. SomeoneLeft' /\ (RunningExact => RunningExact')
  BY <1>1, <1>5, <1>6 DEF SomeoneLeft, RunningExact, doneVars
<1> QED
  BY <1>1, <1>3, <1>4, <1>7, WorkerKeeps DEF Underway, Handled

LEMMA BackupPopDoc ==
  ASSUME BackupInv, TokensInv', NEW w \in Workers, PopDoc(w)
  PROVE  BackupInv'
<1>1. /\ wpc[w] = "pop" /\ wpc' = [wpc EXCEPT ![w] = "get"]
      /\ workerQueue # <<>> /\ workerQueue' = Tail(workerQueue)
      /\ doc' = [doc EXCEPT ![w] = Head(workerQueue)]
      /\ UNCHANGED <<doneQueue, hash, follow, key, written, raised, mainVars, doneVars>>
  BY DEF PopDoc, At
<1>2. \A d \in Docs : Has(d, workerQueue) => Has(d, workerQueue') \/ d = Head(workerQueue)
  BY <1>1, WorkerTypes, TailHas
<1>3. \A v \in Workers : wpc[v] \in {"get", "follow", "add", "push"} =>
        v # w /\ wpc'[v] = wpc[v] /\ doc'[v] = doc[v]
  BY <1>1, WorkerTypes
<1>4. wpc'[w] = "get" /\ doc'[w] = Head(workerQueue)
  BY <1>1, WorkerTypes
<1>5. \A d \in Docs : InFlight(d) => InFlight(d)'
  BY <1>1, <1>2, <1>3, <1>4 DEF InFlight, Busy
<1>6. \A v \in Workers : wpc'[v] \in {"follow", "add", "push"} =>
        wpc'[v] = wpc[v] /\ doc'[v] = doc[v]
  BY <1>1, WorkerTypes
<1>7. Underway => WrittenFollowed' /\ FollowingAll'
  BY <1>1, <1>6 DEF Underway, WrittenFollowed, FollowingAll
<1>8. SomeoneLeft' /\ (RunningExact => RunningExact')
  BY <1>1, GoesOn DEF doneVars
<1> QED
  BY <1>1, <1>5, <1>7, <1>8, WorkerKeeps DEF Underway, Handled

LEMMA BackupGet ==
  ASSUME BackupInv, TokensInv', NEW w \in Workers, Get(w)
  PROVE  BackupInv'
<1>1. /\ wpc[w] = "get"
      /\ wpc' = [wpc EXCEPT ![w] = IF doc[w] \in Missing THEN "report" ELSE "follow"]
      /\ follow' = [follow EXCEPT ![w] = IF doc[w] \in Missing THEN {} ELSE Followed(doc[w])]
      /\ UNCHANGED <<workerQueue, doneQueue, hash, doc, key, written, raised, mainVars, doneVars>>
  BY DEF Get, At, queues
<1>2. PICK to \in {"report", "follow"} :
        /\ wpc' = [wpc EXCEPT ![w] = to]
        /\ to = "report" <=> doc[w] \in Missing
  BY <1>1
<1>3. \A v \in Workers : v # w => wpc'[v] = wpc[v] /\ follow'[v] = follow[v]
  BY <1>1, <1>2, WorkerTypes
<1>4. /\ wpc'[w] = to
      /\ to = "follow" => follow'[w] = Followed(doc[w])
  BY <1>1, <1>2, WorkerTypes
<1>5. \A d \in Docs : InFlight(d) => InFlight(d)' \/ Handled(d)'
  BY <1>1, <1>2, <1>3, <1>4 DEF InFlight, Busy, Handled
<1>6. Underway => WrittenFollowed'
  BY <1>1 DEF Underway, WrittenFollowed
<1>7. Underway => FollowingAll'
  BY <1>1, <1>2, <1>3, <1>4 DEF Underway, FollowingAll
<1>8. SomeoneLeft' /\ (RunningExact => RunningExact')
  BY <1>1, <1>2, GoesOn DEF doneVars
<1> QED
  BY <1>1, <1>5, <1>6, <1>7, <1>8, WorkerKeeps DEF Underway, Handled

LEMMA BackupFollowKey ==
  ASSUME BackupInv, TokensInv', NEW w \in Workers, NEW k \in Docs, FollowKey(w, k)
  PROVE  BackupInv'
<1>1. /\ wpc[w] = "follow" /\ k \in follow[w]
      /\ wpc' = [wpc EXCEPT ![w] = IF k \in hash THEN "follow" ELSE "add"]
      /\ follow' = [follow EXCEPT ![w] = @ \ {k}]
      /\ key' = [key EXCEPT ![w] = IF k \in hash THEN NoDoc ELSE k]
      /\ UNCHANGED <<workerQueue, doneQueue, hash, doc, written, raised, mainVars, doneVars>>
  BY DEF FollowKey, At, queues
<1>2. PICK to \in {"follow", "add"} :
        /\ wpc' = [wpc EXCEPT ![w] = to]
        /\ to = "follow" <=> k \in hash
  BY <1>1
<1>3. \A v \in Workers : v # w => /\ wpc'[v] = wpc[v] /\ follow'[v] = follow[v]
                                  /\ key'[v] = key[v]
  BY <1>1, <1>2, WorkerTypes
<1>4. /\ wpc'[w] = to /\ follow'[w] = follow[w] \ {k}
      /\ k \notin hash => key'[w] = k
  BY <1>1, <1>2, WorkerTypes
<1>5. \A d \in Docs : InFlight(d) => InFlight(d)'
  BY <1>1, <1>3, <1>4 DEF InFlight, Busy
<1>6. Underway => WrittenFollowed'
  BY <1>1 DEF Underway, WrittenFollowed
<1>7. Underway => FollowingAll'
  <2> SUFFICES ASSUME Underway, NEW v \in Workers, wpc'[v] \in {"follow", "add", "push"},
                      NEW l \in Followed(doc[v])
               PROVE  l \in hash \cup follow'[v] \/ (wpc'[v] = "add" /\ key'[v] = l)
    BY <1>1 DEF FollowingAll, Followed
  <2>1. CASE v = w
    BY <1>1, <1>2, <1>4, <2>1 DEF Underway, FollowingAll
  <2>2. CASE v # w
    BY <1>3, <2>2 DEF Underway, FollowingAll
  <2> QED
    BY <2>1, <2>2
<1>8. SomeoneLeft' /\ (RunningExact => RunningExact')
  BY <1>1, <1>2, GoesOn DEF doneVars
<1> QED
  BY <1>1, <1>5, <1>6, <1>7, <1>8, WorkerKeeps DEF Underway, Handled

LEMMA BackupAddKey ==
  ASSUME BackupInv, TokensInv', NEW w \in Workers, AddKey(w)
  PROVE  BackupInv'
<1>1. /\ wpc[w] = "add" /\ wpc' = [wpc EXCEPT ![w] = "push"] /\ hash' = hash \cup {key[w]}
      /\ UNCHANGED <<workerQueue, doneQueue, doc, follow, key, written, raised,
                     mainVars, doneVars>>
  BY DEF AddKey, At
<1>2. /\ \A v \in Workers : v # w => wpc'[v] = wpc[v]
      /\ wpc'[w] = "push"
  BY <1>1, WorkerTypes
<1>3. \A d \in Docs : InFlight(d) => InFlight(d)'
  BY <1>1, <1>2 DEF InFlight, Busy
<1>4. \A d \in hash' : d \in hash \/ InFlight(d)'
  BY <1>1, <1>2 DEF InFlight
<1>5. Underway => WrittenFollowed'
  BY <1>1 DEF Underway, WrittenFollowed
<1>6. Underway => FollowingAll'
  <2> SUFFICES ASSUME Underway, NEW v \in Workers, wpc'[v] \in {"follow", "add", "push"},
                      NEW l \in Followed(doc[v])
               PROVE  l \in hash' \cup follow[v] \/ (wpc'[v] = "add" /\ key[v] = l)
    BY <1>1 DEF FollowingAll, Followed
  <2>1. CASE v = w
    BY <1>1, <2>1 DEF Underway, FollowingAll
  <2>2. CASE v # w
    BY <1>1, <1>2, <2>2 DEF Underway, FollowingAll
  <2> QED
    BY <2>1, <2>2
<1>7. SomeoneLeft' /\ (RunningExact => RunningExact')
  BY <1>1, GoesOn DEF doneVars
<1> QED
  BY <1>1, <1>3, <1>4, <1>5, <1>6, <1>7, WorkerKeeps DEF Underway, Handled

LEMMA BackupPushKey ==
  ASSUME BackupInv, TokensInv', NEW w \in Workers, PushKey(w)
  PROVE  BackupInv'
<1>1. /\ wpc[w] = "push" /\ wpc' = [wpc EXCEPT ![w] = "follow"]
      /\ workerQueue' = Append(workerQueue, key[w]) /\ key' = [key EXCEPT ![w] = NoDoc]
      /\ UNCHANGED <<doneQueue, hash, doc, follow, written, raised, mainVars, doneVars>>
  BY DEF PushKey, At
<1>2. \A v \in Workers : v # w => wpc'[v] = wpc[v] /\ key'[v] = key[v]
  BY <1>1, WorkerTypes
<1>3. wpc'[w] = "follow" /\ key[w] \in Docs \cup {Stop}
  BY <1>1, WorkerTypes
<1>4. \A d : Has(d, workerQueue') <=> Has(d, workerQueue) \/ d = key[w]
  <2> DEFINE S == Docs \cup {Stop}
  <2>1. key[w] \in S /\ workerQueue \in Seq(S)
    BY <1>3, WorkerTypes
  <2> HIDE DEF S
  <2>2. \A d : Has(d, Append(workerQueue, key[w])) <=> Has(d, workerQueue) \/ d = key[w]
    BY <2>1, AppendHas
  <2> QED
    BY <1>1, <2>2
<1>5. \A d \in Docs : InFlight(d) => InFlight(d)'
  BY <1>1, <1>2, <1>3, <1>4 DEF InFlight, Busy
<1>6. Underway => WrittenFollowed'
  BY <1>1 DEF Underway, WrittenFollowed
<1>7. Underway => FollowingAll'
  <2> SUFFICES ASSUME Underway, NEW v \in Workers, wpc'[v] \in {"follow", "add", "push"},
                      NEW l \in Followed(doc[v])
               PROVE  l \in hash \cup follow[v] \/ (wpc'[v] = "add" /\ key'[v] = l)
    BY <1>1 DEF FollowingAll, Followed
  <2>1. CASE v = w
    BY <1>1, <2>1 DEF Underway, FollowingAll
  <2>2. CASE v # w
    BY <1>2, <2>2 DEF Underway, FollowingAll
  <2> QED
    BY <2>1, <2>2
<1>8. SomeoneLeft' /\ (RunningExact => RunningExact')
  BY <1>1, GoesOn DEF doneVars
<1> QED
  BY <1>1, <1>5, <1>6, <1>7, <1>8, WorkerKeeps DEF Underway, Handled

\* A document is written when all its keys are noted.
LEMMA BackupWrite ==
  ASSUME BackupInv, TokensInv', NEW w \in Workers, Write(w)
  PROVE  BackupInv'
<1>1. /\ wpc[w] = "follow" /\ follow[w] = {} /\ wpc' = [wpc EXCEPT ![w] = "report"]
      /\ written' = [written EXCEPT ![doc[w]] = @ + 1]
      /\ UNCHANGED <<workerQueue, doneQueue, hash, doc, follow, key, raised, mainVars, doneVars>>
  BY DEF Write, At, queues
<1>2. /\ \A v \in Workers : v # w => wpc'[v] = wpc[v]
      /\ wpc'[w] = "report" /\ doc[w] \in Docs
  BY <1>1, WorkerTypes
<1>3. /\ \A d \in Docs : d # doc[w] => written'[d] = written[d]
      /\ written'[doc[w]] > 0
      /\ \A d \in Docs : written[d] > 0 => written'[d] > 0
  BY <1>1, <1>2, WorkerTypes
<1>4. \A d \in Docs : Handled(d) => Handled(d)'
  BY <1>1, <1>3 DEF Handled
<1>5. \A d \in Docs : InFlight(d) => InFlight(d)' \/ Handled(d)'
  BY <1>1, <1>2, <1>3 DEF InFlight, Busy, Handled
<1>6. Underway => WrittenFollowed'
  <2> SUFFICES ASSUME Underway, NEW e \in Docs, written'[e] > 0 PROVE Followed(e) \subseteq hash
    BY <1>1 DEF WrittenFollowed, Followed
  <2>1. CASE e = doc[w]
    BY <1>1, <2>1 DEF Underway, FollowingAll
  <2>2. CASE e # doc[w]
    BY <1>3, <2>2 DEF Underway, WrittenFollowed
  <2> QED
    BY <2>1, <2>2
<1>7. Underway => FollowingAll'
  BY <1>1, <1>2 DEF Underway, FollowingAll
<1>8. SomeoneLeft' /\ (RunningExact => RunningExact')
  BY <1>1, GoesOn DEF doneVars
<1> QED
  BY <1>1, <1>4, <1>5, <1>6, <1>7, <1>8, WorkerKeeps DEF Underway

LEMMA BackupRaise ==
  ASSUME BackupInv, TokensInv', NEW w \in Workers, Raise(w)
  PROVE  BackupInv'
<1>1. /\ wpc[w] \in {"get", "follow"} /\ wpc' = [wpc EXCEPT ![w] = "report"]
      /\ raised' = raised \cup {doc[w]} /\ follow' = [follow EXCEPT ![w] = {}]
      /\ UNCHANGED <<workerQueue, doneQueue, hash, doc, key, written, mainVars, doneVars>>
  BY DEF Raise, At, queues
<1>2. /\ \A v \in Workers : v # w => wpc'[v] = wpc[v] /\ follow'[v] = follow[v]
      /\ wpc'[w] = "report"
  BY <1>1, WorkerTypes
<1>3. \A d \in Docs : Handled(d) => Handled(d)'
  BY <1>1 DEF Handled
<1>4. \A d \in Docs : InFlight(d) => InFlight(d)' \/ Handled(d)'
  BY <1>1, <1>2 DEF InFlight, Busy, Handled
<1>5. Underway => WrittenFollowed'
  BY <1>1 DEF Underway, WrittenFollowed
<1>6. Underway => FollowingAll'
  BY <1>1, <1>2 DEF Underway, FollowingAll
<1>7. SomeoneLeft' /\ (RunningExact => RunningExact')
  BY <1>1, GoesOn DEF doneVars
<1> QED
  BY <1>1, <1>3, <1>4, <1>5, <1>6, <1>7, WorkerKeeps DEF Underway

LEMMA BackupReport ==
  ASSUME BackupInv, TokensInv', NEW w \in Workers, Report(w)
  PROVE  BackupInv'
<1>1. /\ wpc[w] = "report" /\ wpc' = [wpc EXCEPT ![w] = "pop"]
      /\ doneQueue' = Append(doneQueue, report[w]) /\ doc' = [doc EXCEPT ![w] = NoDoc]
      /\ UNCHANGED <<workerQueue, hash, follow, key, written, raised, mainVars, doneVars>>
  BY DEF Report, At
<1>2. /\ \A v \in Workers : v # w => wpc'[v] = wpc[v] /\ doc'[v] = doc[v]
      /\ wpc'[w] = "pop"
  BY <1>1, WorkerTypes
<1>3. \A d \in Docs : InFlight(d) => InFlight(d)'
  BY <1>1, <1>2 DEF InFlight, Busy
<1>4. Underway => WrittenFollowed' /\ FollowingAll'
  <2>1. \A v \in Workers : wpc'[v] \in {"follow", "add", "push"} =>
          wpc'[v] = wpc[v] /\ doc'[v] = doc[v]
    BY <1>2
  <2> QED
    BY <1>1, <2>1 DEF Underway, WrittenFollowed, FollowingAll
<1>5. SomeoneLeft'
  BY <1>2 DEF SomeoneLeft
<1>6. RunningExact => RunningExact'
  <2>1. NotDone' = NotDone
    BY <1>1, <1>2 DEF NotDone
  <2> DEFINE S == {"ok", "missing", "error", "stopped"}
  <2>2. report[w] \in S /\ report[w] # "stopped" /\ doneQueue \in Seq(S)
    BY WorkerTypes
  <2> HIDE DEF S
  <2>3. Count(Append(doneQueue, report[w]), "stopped")
          = Count(doneQueue, "stopped") + (IF report[w] = "stopped" THEN 1 ELSE 0)
    BY <2>2, CountAppend
  <2>4. Count(doneQueue, "stopped") \in Nat
    BY <2>2, CountIsNat
  <2>5. Count(doneQueue', "stopped") = Count(doneQueue, "stopped")
    BY <1>1, <2>2, <2>3, <2>4
  <2> QED
    BY <1>1, <2>1, <2>5 DEF RunningExact, doneVars
<1> QED
  BY <1>1, <1>3, <1>4, <1>5, <1>6, WorkerKeeps DEF Underway, Handled

LEMMA BackupReportStopped ==
  ASSUME BackupInv, TokensInv', NEW w \in Workers, ReportStopped(w)
  PROVE  BackupInv'
<1>1. /\ wpc[w] = "stopped" /\ wpc' = [wpc EXCEPT ![w] = "done"]
      /\ doneQueue' = Append(doneQueue, "stopped")
      /\ UNCHANGED <<workerQueue, hash, doc, follow, key, written, raised, mainVars, doneVars>>
  BY DEF ReportStopped, At
<1>2. /\ \A v \in Workers : v # w => wpc'[v] = wpc[v]
      /\ wpc'[w] = "done"
  BY <1>1, WorkerTypes
<1>3. \A d \in Docs : InFlight(d) => InFlight(d)'
  BY <1>1, <1>2 DEF InFlight, Busy
<1>4. Underway => WrittenFollowed' /\ FollowingAll'
  <2>1. \A v \in Workers : wpc'[v] \in {"follow", "add", "push"} => wpc'[v] = wpc[v]
    BY <1>2
  <2> QED
    BY <1>1, <2>1 DEF Underway, WrittenFollowed, FollowingAll
<1>5. Underway => SomeoneLeft'
  BY <1>1, <1>2 DEF Underway, SomeoneLeft, mainVars
<1>6. RunningExact => RunningExact'
  <2>1. NotDone' = NotDone \ {w} /\ w \in NotDone
    BY <1>1, <1>2 DEF NotDone
  <2>2. /\ Cardinality(NotDone') = Cardinality(NotDone) - 1
        /\ Cardinality(NotDone) \in Nat /\ Cardinality(NotDone') \in Nat
    BY <2>1, NotDoneSets, FS_RemoveElement
  <2> DEFINE S == {"ok", "missing", "error", "stopped"}
  <2>3. "stopped" \in S /\ doneQueue \in Seq(S)
    BY WorkerTypes
  <2> HIDE DEF S
  <2>4. /\ Count(doneQueue', "stopped") = Count(doneQueue, "stopped") + 1
        /\ Count(doneQueue, "stopped") \in Nat
    BY <1>1, <2>3, CountAppend, CountIsNat
  <2>5. \A a, b, c, e \in Nat : b = a - 1 /\ e = c + 1 => a + c = b + e
    OBVIOUS
  <2>6. Cardinality(NotDone) + Count(doneQueue, "stopped")
          = Cardinality(NotDone') + Count(doneQueue', "stopped")
    BY <2>2, <2>4, <2>5
  <2> QED
    BY <1>1, <2>6 DEF RunningExact, doneVars
<1> QED
  BY <1>1, <1>3, <1>4, <1>5, <1>6, WorkerKeeps DEF Underway, Handled

LEMMA BackupWorker ==
  ASSUME BackupInv, TokensInv', NEW w \in Workers, WorkerStep(w)
  PROVE  BackupInv'
BY BackupPopStop, BackupRequeue, BackupPopNone, BackupPopDoc, BackupGet, BackupFollowKey,
   BackupAddKey, BackupPushKey, BackupWrite, BackupRaise, BackupReport, BackupReportStopped
   DEF WorkerStep

LEMMA BackupMain ==
  ASSUME BackupInv, TokensInv', MainStep
  PROVE  BackupInv'
<1>0. left \in Seq(Docs)
  BY DEF BackupInv, TokensInv, TypeOK
<1>1. CASE PushFound
  <2>1. /\ left # <<>> /\ left' = Tail(left) /\ workerQueue' = Append(workerQueue, Head(left))
        /\ UNCHANGED <<doneQueue, hash, workerVars, mpc, bucketError, doneVars>>
    BY <1>1 DEF PushFound
  <2>2. /\ Head(left) \in Docs
        /\ \A d : Has(d, left) => Has(d, left') \/ d = Head(left)
    BY <1>0, <2>1, TailHas
  <2>3. \A d : Has(d, workerQueue') <=> Has(d, workerQueue) \/ d = Head(left)
    <3> DEFINE S == Docs \cup {Stop}
    <3>1. Head(left) \in S /\ workerQueue \in Seq(S)
      BY <2>2, WorkerTypes
    <3> HIDE DEF S
    <3>2. \A d : Has(d, Append(workerQueue, Head(left))) <=> Has(d, workerQueue) \/ d = Head(left)
      BY <3>1, AppendHas
    <3> QED
      BY <2>1, <3>2
  <2>4. \A d : InFlight(d) => InFlight(d)'
    BY <2>1, <2>3 DEF InFlight, Busy, workerVars
  <2>5. \A d : (Handled(d) <=> Handled(d)')
    BY <2>1 DEF Handled, workerVars
  <2>6. ASSUME Underway PROVE Underway'
    <3>1. FoundAccounted'
      <4> SUFFICES ASSUME NEW d \in Range(Found)
                   PROVE  Has(d, left') \/ InFlight(d)' \/ Handled(d)'
        BY DEF FoundAccounted
      <4>1. CASE Has(d, left)
        BY <2>2, <2>3, <4>1 DEF InFlight
      <4>2. CASE InFlight(d) \/ Handled(d)
        BY <2>4, <2>5, <4>2
      <4> QED
        BY <2>6, <4>1, <4>2 DEF Underway, FoundAccounted
    <3>2. KeysAccounted'
      BY <2>1, <2>4, <2>5, <2>6 DEF Underway, KeysAccounted
    <3>3. WrittenFollowed' /\ FollowingAll'
      BY <2>1, <2>6 DEF Underway, WrittenFollowed, FollowingAll, workerVars
    <3>4. SomeoneLeft'
      BY <2>1, <2>6 DEF Underway, SomeoneLeft, workerVars
    <3>5. RunningExact'
      BY <2>1, <2>6 DEF Underway, RunningExact, NotDone, workerVars, doneVars
    <3> QED
      BY <3>1, <3>2, <3>3, <3>4, <3>5 DEF Underway
  <2> QED
    BY <2>1, <2>6 DEF BackupInv, MainPlace, AllDone, doneVars
<1>2. CASE BucketFails
  <2>1. bucketError' # {} /\ mpc' = "terminate"
    BY <1>2 DEF BucketFails
  <2> QED
    BY <2>1 DEF BackupInv, MainPlace
<1>3. CASE Terminate
  <2>1. mpc = "terminate" /\ mpc' = "search" /\ bucketError' = bucketError
    BY <1>3 DEF Terminate
  <2> QED
    BY <2>1 DEF BackupInv, MainPlace
<1>4. CASE PushStop
  <2>1. /\ left = <<>> /\ workerQueue' = Append(workerQueue, Stop)
        /\ UNCHANGED <<doneQueue, hash, workerVars, mpc, left, bucketError, doneVars>>
    BY <1>4 DEF PushStop
  <2>2. \A d : Has(d, workerQueue') <=> Has(d, workerQueue) \/ d = Stop
    <3> DEFINE S == Docs \cup {Stop}
    <3>1. Stop \in S /\ workerQueue \in Seq(S)
      BY WorkerTypes
    <3> HIDE DEF S, Stop
    <3>2. \A d : Has(d, Append(workerQueue, Stop)) <=> Has(d, workerQueue) \/ d = Stop
      BY <3>1, AppendHas
    <3> QED
      BY <2>1, <3>2
  <2>3. \A d : InFlight(d) => InFlight(d)'
    BY <2>1, <2>2 DEF InFlight, Busy, workerVars
  <2>4. \A d : (Handled(d) <=> Handled(d)')
    BY <2>1 DEF Handled, workerVars
  <2>5. ASSUME Underway PROVE Underway'
    <3>1. FoundAccounted' /\ KeysAccounted'
      BY <2>1, <2>3, <2>4, <2>5 DEF Underway, FoundAccounted, KeysAccounted
    <3>2. WrittenFollowed' /\ FollowingAll'
      BY <2>1, <2>5 DEF Underway, WrittenFollowed, FollowingAll, workerVars
    <3>3. SomeoneLeft'
      BY <2>1, <2>2, <2>5, WorkerTypes DEF Underway, SomeoneLeft, workerVars
    <3>4. RunningExact'
      BY <2>1, <2>5 DEF Underway, RunningExact, NotDone, workerVars, doneVars
    <3> QED
      BY <3>1, <3>2, <3>3, <3>4 DEF Underway
  <2>6. AllDone => AllDone'
    BY <2>1, <2>4 DEF AllDone, Complete, workerVars
  <2> QED
    BY <2>1, <2>5, <2>6 DEF BackupInv, MainPlace, doneVars
<1>5. CASE Join
  <2>1. /\ mpc = "search" /\ mpc' = "returned" /\ dpc = "done"
        /\ UNCHANGED <<workerVars, left, bucketError, doneVars>>
    BY <1>5 DEF Join
  <2>2. AllDone => AllDone'
    BY <2>1 DEF AllDone, Complete, Handled, workerVars
  <2> QED
    BY <2>1, <2>2 DEF BackupInv, MainPlace, doneVars
<1> QED
  BY <1>1, <1>2, <1>3, <1>4, <1>5 DEF MainStep

LEMMA BackupDone ==
  ASSUME BackupInv, TokensInv', DoneStep
  PROVE  BackupInv'
<1>1. CASE DonePop
  <2>1. /\ dpc = "run" /\ doneQueue # <<>> /\ doneQueue' = Tail(doneQueue)
        /\ running' = IF Head(doneQueue) = "stopped" THEN running - 1 ELSE running
        /\ UNCHANGED <<workerQueue, hash, workerVars, mainVars, dpc>>
    BY <1>1 DEF DonePop
  <2>2. ASSUME Underway PROVE Underway'
    <3>1. FoundAccounted' /\ KeysAccounted'
      BY <2>1, <2>2 DEF Underway, FoundAccounted, KeysAccounted, InFlight, Busy, Handled,
                        workerVars, mainVars
    <3>2. WrittenFollowed' /\ FollowingAll'
      BY <2>1, <2>2 DEF Underway, WrittenFollowed, FollowingAll, workerVars
    <3>3. SomeoneLeft'
      BY <2>1, <2>2 DEF Underway, SomeoneLeft, workerVars, mainVars
    <3>4. RunningExact'
      <4>1. NotDone' = NotDone /\ Cardinality(NotDone) \in Nat
        BY <2>1, NotDoneSets DEF NotDone, workerVars
      <4> DEFINE S == {"ok", "missing", "error", "stopped"}
      <4>2. doneQueue \in Seq(S) /\ doneQueue' \in Seq(S)
        BY WorkerTypes DEF TokensInv, TypeOK
      <4> HIDE DEF S
      <4>3. Count(doneQueue, "stopped")
              = Count(Tail(doneQueue), "stopped") + (IF Head(doneQueue) = "stopped" THEN 1 ELSE 0)
        BY <2>1, <4>2, CountTail
      <4>4. Count(doneQueue, "stopped") \in Nat /\ Count(doneQueue', "stopped") \in Nat
        BY <4>2, CountIsNat
      <4>5. running = Cardinality(NotDone) + Count(doneQueue, "stopped")
        BY <2>2 DEF Underway, RunningExact
      <4>6. running' = Cardinality(NotDone) + Count(doneQueue', "stopped")
        BY <2>1, <4>1, <4>3, <4>4, <4>5
      <4> QED
        BY <4>1, <4>6 DEF RunningExact
    <3> QED
      BY <3>1, <3>2, <3>3, <3>4 DEF Underway
  <2> QED
    BY <2>1, <2>2 DEF BackupInv, MainPlace, mainVars
<1>2. CASE DoneEnd
  <2>1. /\ dpc = "run" /\ running = 0 /\ dpc' = "done" /\ UNCHANGED <<workerVars, mainVars>>
    BY <1>2 DEF DoneEnd
  <2>2. ASSUME bucketError = {} PROVE AllDone'
    <3>1. Underway
      BY <2>1, <2>2 DEF BackupInv
    <3>2. \A w \in Workers : wpc[w] = "done"
      <4>1. Cardinality(NotDone) \in Nat /\ Count(doneQueue, "stopped") \in Nat
        BY NotDoneSets, WorkerTypes, CountIsNat
      <4>2. Cardinality(NotDone) = 0
        BY <2>1, <3>1, <4>1 DEF Underway, RunningExact
      <4>3. NotDone = {}
        BY <4>2, NotDoneSets, FS_EmptySet
      <4> QED
        BY <4>3 DEF NotDone
    <3>3. left = <<>> /\ \A d \in Docs : ~ Has(d, workerQueue)
      BY <3>1, <3>2 DEF Underway, SomeoneLeft
    <3>4. \A d \in Docs : ~ InFlight(d)
      BY <3>2, <3>3 DEF InFlight, Busy
    <3>5. \A d : ~ Has(d, left)
      BY <3>3 DEF Has
    <3>6. Complete
      <4> SUFFICES ASSUME NEW d \in Docs,
                          d \in Range(Found) \/ \E e \in Docs : written[e] > 0 /\ d \in Followed(e)
                   PROVE  Handled(d)
        BY DEF Complete
      <4>1. CASE d \in Range(Found)
        BY <3>1, <3>4, <3>5, <4>1 DEF Underway, FoundAccounted
      <4>2. CASE \E e \in Docs : written[e] > 0 /\ d \in Followed(e)
        <5>1. d \in hash
          BY <3>1, <4>2 DEF Underway, WrittenFollowed
        <5> QED
          BY <3>1, <3>4, <5>1 DEF Underway, KeysAccounted
      <4> QED
        BY <4>1, <4>2
    <3> QED
      BY <2>1, <3>2, <3>3, <3>6 DEF AllDone, Complete, Handled, workerVars, mainVars
  <2> QED
    BY <2>1, <2>2 DEF BackupInv, MainPlace, mainVars
<1> QED
  BY <1>1, <1>2 DEF DoneStep

LEMMA BackupInvStep == BackupInv /\ [Next]_vars => BackupInv'
<1> SUFFICES ASSUME BackupInv, [Next]_vars PROVE BackupInv'
  OBVIOUS
<1>1. TokensInv'
  BY TokensStep DEF BackupInv
<1>2. CASE UNCHANGED vars
  <2>1. Underway => Underway'
    BY <1>2 DEF vars, queues, workerVars, mainVars, doneVars, Underway, FoundAccounted,
                KeysAccounted, InFlight, Busy, Handled, WrittenFollowed, FollowingAll, SomeoneLeft,
                RunningExact, NotDone
  <2>2. AllDone => AllDone'
    BY <1>2 DEF vars, workerVars, mainVars, AllDone, Complete, Handled
  <2> QED
    BY <1>1, <1>2, <2>1, <2>2 DEF BackupInv, MainPlace, vars, mainVars, doneVars
<1>3. CASE Returned
  BY <1>2, <1>3 DEF Returned
<1> QED
  BY <1>1, <1>2, <1>3, BackupWorker, BackupMain, BackupDone DEF Next

\* A backup that returns without a bucket error is complete, for any documents,
\* references, missing keys, number of workers and documents that raise, with
\* processes or threads: whatever the query found, and whatever follows from a
\* written document, was written, is missing or raised (backup, backup_worker,
\* done_thread).
THEOREM BackupAlwaysComplete == Spec => []BackupComplete
<1>1. BackupInv => BackupComplete
  BY DEF BackupInv, MainPlace, AllDone, Complete, BackupComplete
<1> QED
  BY <1>1, BackupInvInit, BackupInvStep, PTL DEF Spec
=============================================================================
