---------------------------- MODULE WorkerProofs ---------------------------
(***************************************************************************)
(* The machines around the workers for any number of clients, sessions,    *)
(* pushes and edits, and any number of lost replies: the lock excludes,    *)
(* the quota holds, the counters add up, the rules are current, and what   *)
(* is handed on arrives: the priority queue accounts for every push and    *)
(* keeps the order of each producer, and the wish to archive a submission  *)
(* survives its being submitted again.  At the end, all of them together.  *)
(***************************************************************************)
EXTENDS MCWorkers, FiniteSetTheorems, SequenceTheorems, WellFoundedInduction, TLAPS

----------------------------------------------------------------------------
\* The lock.

LockInv == LockTypeOK /\ LockHeld

LEMMA LockInvInit == LockInit => LockInv
BY LockAssumption
   DEF LockInit, LockInv, LockTypeOK, LockHeld, LockPoints, Inside

LEMMA LockInvEnter ==
  ASSUME NEW c \in LockClients, LockInv,
         Enter(c) \/ Acquire(c) \/ AcquireUnheard(c)
  PROVE  LockInv'
<1> USE DEF LockInv, LockTypeOK, LockHeld, LockPoints, Inside, GoTo
<1>1. CASE Enter(c)
  BY <1>1 DEF Enter
<1>2. CASE Acquire(c) /\ lockHolder = LockNobody
  BY <1>2, LockAssumption DEF Acquire
<1>3. CASE Acquire(c) /\ lockHolder # LockNobody
  BY <1>3 DEF Acquire
<1>4. CASE AcquireUnheard(c)
  BY <1>4, LockAssumption DEF AcquireUnheard, LoseReply
<1> QED
  BY <1>1, <1>2, <1>3, <1>4

LEMMA LockInvWait ==
  ASSUME NEW c \in LockClients, LockInv,
         TakeToken(c) \/ TakeTokenUnheard(c) \/ WaitTimesOut(c)
  PROVE  LockInv'
<1> USE DEF LockInv, LockTypeOK, LockHeld, LockPoints, Inside, GoTo
<1>1. CASE TakeToken(c)
  BY <1>1 DEF TakeToken
<1>2. CASE TakeTokenUnheard(c)
  BY <1>2 DEF TakeTokenUnheard, LoseReply
<1>3. CASE WaitTimesOut(c)
  BY <1>3 DEF WaitTimesOut
<1> QED
  BY <1>1, <1>2, <1>3

\* A release frees the lock only of the client that makes it, who is no longer
\* inside.
LEMMA LockInvLeave ==
  ASSUME NEW c \in LockClients, LockInv,
         Release(c) \/ ReleaseUnheard(c) \/ Die(c)
  PROVE  LockInv'
<1> USE DEF LockInv, LockTypeOK, LockHeld, LockPoints, Inside, GoTo
<1>1. CASE Release(c)
  BY <1>1 DEF Release, ReleaseScript
<1>2. CASE ReleaseUnheard(c)
  BY <1>2 DEF ReleaseUnheard, ReleaseScript, LoseReply
<1>3. CASE Die(c)
  BY <1>3 DEF Die
<1> QED
  BY <1>1, <1>2, <1>3

LEMMA LockInvExpire ==
  ASSUME LockInv, LeaseEnds \/ TokensExpire
  PROVE  LockInv'
<1> USE DEF LockInv, LockTypeOK, LockHeld, LockPoints, Inside
<1>1. CASE LeaseEnds
  BY <1>1 DEF LeaseEnds
<1>2. CASE TokensExpire
  BY <1>2 DEF TokensExpire
<1> QED
  BY <1>1, <1>2

LEMMA LockInvStep == LockInv /\ [LockNext]_lockVars => LockInv'
<1> SUFFICES ASSUME LockInv, [LockNext]_lockVars PROVE LockInv'
  OBVIOUS
<1>1. CASE UNCHANGED lockVars
  BY <1>1 DEF lockVars, LockInv, LockTypeOK, LockHeld, Inside
<1>2. CASE LeaseEnds \/ TokensExpire
  BY <1>2, LockInvExpire
<1>3. ASSUME NEW c \in LockClients,
             \/ Enter(c) \/ Acquire(c) \/ AcquireUnheard(c)
             \/ TakeToken(c) \/ TakeTokenUnheard(c) \/ WaitTimesOut(c)
             \/ Release(c) \/ ReleaseUnheard(c) \/ Die(c)
      PROVE  LockInv'
  BY <1>3, LockInvEnter, LockInvWait, LockInvLeave
<1> QED
  BY <1>1, <1>2, <1>3 DEF LockNext

\* Every variable of the lock keeps its type, and who is inside within the
\* lease is the holder on the server, for any number of clients (lock.py).
THEOREM LockInvariant == LockSpec => []LockInv
BY LockInvInit, LockInvStep, PTL DEF LockSpec

\* Two clients are inside together only when the lease of one has ended under
\* it, for any number of clients, deaths and lost replies (lock.py).
THEOREM LockExcludes == LockSpec => []LockExclusive
<1>1. LockInv => LockExclusive
  BY DEF LockInv, LockHeld, LockExclusive
<1> QED
  BY <1>1, LockInvariant, PTL

----------------------------------------------------------------------------
\* The exporting counters.

\* Only who is publishing has taken something away.
HandsEmpty == \A e \in Exporters : ctrExport[e] # "publishing" => ctrCopy[e] = 0

CtrInv == CtrTypeOK /\ HandsEmpty /\ CountsConserved

LEMMA CtrInvInit == CtrInit => CtrInv
BY DEF CtrInit, CtrInv, CtrTypeOK, HandsEmpty, CountsConserved, Exporters

\* What the exporter takes away leaves the counters.
LEMMA CtrInvStart ==
  ASSUME NEW e \in Exporters, CtrInv, StartExport(e)
  PROVE  CtrInv'
<1> USE DEF CtrInv, CtrTypeOK, HandsEmpty, CountsConserved, Exporters
<1>1. ctrCopy[e] = 0
  BY DEF StartExport
<1>2. ctrCopy' = [ctrCopy EXCEPT ![e] = ctrCounts] /\ ctrCounts' = 0
  BY DEF StartExport, ResetCounts
<1>3. UNCHANGED <<ctrProcess, ctrTotal, ctrPublished, ctrRepeats, ctrLost>>
  BY DEF StartExport
<1>4. CtrTypeOK'
  BY <1>2, <1>3 DEF StartExport, Over
<1>5. HandsEmpty'
  BY <1>2 DEF StartExport, Over
<1>6. CountsConserved'
  BY <1>1, <1>2, <1>3
<1> QED
  BY <1>4, <1>5, <1>6

LEMMA CtrInvEnd ==
  ASSUME NEW e \in Exporters, CtrInv, Published(e) \/ PublishUnheard(e) \/ PublishFails(e)
  PROVE  CtrInv'
<1> USE DEF CtrInv, CtrTypeOK, HandsEmpty, CountsConserved, Exporters
<1>1. CASE Published(e)
  BY <1>1 DEF Published, Over
<1>2. CASE PublishUnheard(e)
  BY <1>2 DEF PublishUnheard
<1>3. CASE PublishFails(e)
  BY <1>3 DEF PublishFails, Over
<1> QED
  BY <1>1, <1>2, <1>3

LEMMA CtrInvStep == CtrInv /\ [CtrNext]_ctrVars => CtrInv'
<1> SUFFICES ASSUME CtrInv, [CtrNext]_ctrVars PROVE CtrInv'
  OBVIOUS
<1> USE DEF CtrInv, CtrTypeOK, HandsEmpty, CountsConserved, Exporters
<1>1. ASSUME NEW by \in CtrSteps, Increment(by) PROVE CtrInv'
  BY <1>1, CtrAssumption DEF Increment
<1>2. ASSUME NEW e \in Exporters,
             StartExport(e) \/ Published(e) \/ PublishUnheard(e) \/ PublishFails(e)
      PROVE  CtrInv'
  BY <1>2, CtrInvStart, CtrInvEnd
<1>3. CASE Stop
  BY <1>3 DEF Stop
<1>4. CASE Exit
  BY <1>4 DEF Exit
<1>5. CASE UNCHANGED ctrVars
  BY <1>5 DEF ctrVars
<1> QED
  BY <1>1, <1>2, <1>3, <1>4, <1>5 DEF CtrNext

\* Whatever is counted is in exactly one place, for any number of increments and
\* exports, overlapping and failing as they may (exporting_counter.py).
THEOREM CountersConserve == CtrSpec => []CountsConserved
<1>1. CtrInv => CountsConserved
  BY DEF CtrInv
<1> QED
  BY <1>1, CtrInvInit, CtrInvStep, PTL DEF CtrSpec

----------------------------------------------------------------------------
\* The reloading of rules.

\* A process that has not loaded yet has a load under way; one that has no
\* subscription gets no events.  What was read and is not the stored rules will
\* be read again: RulesCurrent does not say so while the table still is current.
BootInv ==
  /\ rulesWorker = "booting" => rulesLoad # "none"
  /\ rulesLinked = FALSE => rulesEvents = 0
  /\ rulesLoad = "swapping" =>
       \/ rulesRead = rulesStored
       \/ rulesEvents > 0
       \/ rulesEditor = "sending"
       \/ rulesExcused

RuleInv == RuleTypeOK /\ BootInv /\ RulesCurrent

LEMMA RuleInvInit == RuleInit => RuleInv
<1> SUFFICES ASSUME RuleInit PROVE RuleInv
  OBVIOUS
<1>1. RuleTypeOK
  <2>1. rulesLinked \in BOOLEAN /\ rulesExcused \in BOOLEAN
    BY Zenon DEF RuleInit
  <2> QED
    BY <2>1 DEF RuleInit, RuleTypeOK
<1>2. BootInv /\ RulesCurrent
  BY DEF RuleInit, BootInv, RulesCurrent
<1> QED
  BY <1>1, <1>2 DEF RuleInv

LEMMA RuleInvEditor ==
  ASSUME RuleInv, SaveEntry \/ PutRules \/ \E heard \in BOOLEAN : SendEvent(heard)
  PROVE  RuleInv'
<1> USE DEF RuleInv, RuleTypeOK, BootInv, RulesCurrent, workerVars
<1>1. CASE SaveEntry
  BY <1>1 DEF SaveEntry
<1>2. CASE PutRules
  BY <1>2 DEF PutRules
<1>3. ASSUME NEW heard \in BOOLEAN, SendEvent(heard) PROVE RuleInv'
  <2>1. rulesExcused' \in BOOLEAN
    BY <1>3, Zenon DEF SendEvent
  <2>2. rulesEvents' \in Nat /\ rulesFaults' \in Nat
    BY <1>3 DEF SendEvent
  <2>3. rulesEvents' > 0 \/ rulesExcused'
    BY <1>3 DEF SendEvent
  <2>4. rulesLinked = FALSE => rulesEvents' = rulesEvents
    BY <1>3 DEF SendEvent
  <2>5. /\ UNCHANGED <<rulesStored, rulesWorker, rulesLinked, rulesLoad, rulesRead, rulesTable>>
        /\ rulesEditor' \in {"idle", "saving", "sending"}
    BY <1>3 DEF SendEvent
  <2> QED
    BY <2>1, <2>2, <2>3, <2>4, <2>5
<1> QED
  BY <1>1, <1>2, <1>3

LEMMA RuleInvLoad ==
  ASSUME RuleInv, ReadRules \/ ReadNothing \/ WatcherDies \/ SwapRules \/ HandleEvent
  PROVE  RuleInv'
<1> USE DEF RuleInv, RuleTypeOK, BootInv, RulesCurrent
<1>1. CASE ReadRules
  BY <1>1 DEF ReadRules
<1>2. CASE ReadNothing
  BY <1>2 DEF ReadNothing
<1>3. CASE WatcherDies
  <2>1. rulesLinked' \in BOOLEAN /\ rulesExcused' \in BOOLEAN
    BY <1>3, Zenon DEF WatcherDies
  <2> QED
    BY <1>3, <2>1 DEF WatcherDies
<1>4. CASE SwapRules
  BY <1>4 DEF SwapRules
<1>5. CASE HandleEvent
  BY <1>5 DEF HandleEvent
<1> QED
  BY <1>1, <1>2, <1>3, <1>4, <1>5

LEMMA RuleInvLink ==
  ASSUME RuleInv, Register \/ Disconnect \/ Reconnect
  PROVE  RuleInv'
<1> USE DEF RuleInv, RuleTypeOK, BootInv, RulesCurrent
<1>1. CASE Register
  BY <1>1 DEF Register
<1>2. CASE Disconnect
  <2>1. rulesLinked' \in BOOLEAN /\ rulesExcused' \in BOOLEAN /\ rulesLinked' = FALSE
    BY <1>2, Zenon DEF Disconnect
  <2>2. rulesEvents > 0 \/ rulesExcused => rulesExcused'
    BY <1>2, Zenon DEF Disconnect
  <2>3. RuleTypeOK'
    BY <1>2, <2>1 DEF Disconnect
  <2>4. BootInv' /\ RulesCurrent'
    BY <1>2, <2>2 DEF Disconnect
  <2> QED
    BY <2>3, <2>4
<1>3. CASE Reconnect
  BY <1>3 DEF Reconnect
<1> QED
  BY <1>1, <1>2, <1>3

LEMMA RuleInvStep == RuleInv /\ [RuleNext]_ruleVars => RuleInv'
<1> SUFFICES ASSUME RuleInv, [RuleNext]_ruleVars PROVE RuleInv'
  OBVIOUS
<1>1. CASE UNCHANGED ruleVars
  BY <1>1 DEF ruleVars, RuleInv, RuleTypeOK, BootInv, RulesCurrent
<1>2. CASE RuleNext
  BY <1>2, RuleInvEditor, RuleInvLoad, RuleInvLink DEF RuleNext
<1> QED
  BY <1>1, <1>2

\* A process whose rules are not the stored ones is about to load them, for any
\* number of edits, broken connections and failing reads (postprocess.py,
\* events.py).
THEOREM RulesStayCurrent == RuleSpec => []RulesCurrent
<1>1. RuleInv => RulesCurrent
  BY DEF RuleInv
<1> QED
  BY <1>1, RuleInvInit, RuleInvStep, PTL DEF RuleSpec

----------------------------------------------------------------------------
\* The quota.

\* Members, and what is left of what is left, and of a set with one time more.
LEMMA LaterMember ==
  ASSUME NEW S, NEW h, NEW x
  PROVE  x \in Later(S, h) <=> x \in S /\ x > h
BY DEF Later

LEMMA LaterSmaller ==
  ASSUME NEW S \in SUBSET Nat, NEW h \in Nat, NEW k \in Nat, h <= k
  PROVE  Later(Later(S, h), k) = Later(S, k)
<1>1. ASSUME NEW x PROVE x \in Later(Later(S, h), k) <=> x \in Later(S, k)
  <2>1. CASE x \in S
    <3>1. x \in Nat
      BY <2>1
    <3>2. x > k => x > h
      BY <3>1
    <3> QED
      BY <3>2, LaterMember
  <2>2. CASE x \notin S
    BY <2>2, LaterMember
  <2> QED
    BY <2>1, <2>2
<1> QED
  BY <1>1

LEMMA LaterAdded ==
  ASSUME NEW S \in SUBSET Nat, NEW n \in Nat, NEW k \in Nat
  PROVE  /\ k < n => Later(S \cup {n}, k) = Later(S, k) \cup {n}
         /\ k >= n => Later(S \cup {n}, k) = Later(S, k)
<1>1. ASSUME k < n PROVE Later(S \cup {n}, k) = Later(S, k) \cup {n}
  <2>1. ASSUME NEW x PROVE x \in Later(S \cup {n}, k) <=> x \in Later(S, k) \cup {n}
    <3>1. CASE x = n
      BY <1>1, <3>1, LaterMember
    <3>2. CASE x # n
      BY <3>2, LaterMember
    <3> QED
      BY <3>1, <3>2
  <2> QED
    BY <2>1
<1>2. ASSUME k >= n PROVE Later(S \cup {n}, k) = Later(S, k)
  <2>1. ASSUME NEW x PROVE x \in Later(S \cup {n}, k) <=> x \in Later(S, k)
    <3>1. CASE x = n
      BY <1>2, <3>1, LaterMember
    <3>2. CASE x # n
      BY <3>2, LaterMember
    <3> QED
      BY <3>1, <3>2
  <2> QED
    BY <2>1
<1> QED
  BY <1>1, <1>2

\* No more entries than the quota: begin adds one only to less than that.
EntriesInv == Cardinality(quotaEntries) <= QuotaMax

QuotaInv ==
  /\ QuotaTypeOK
  /\ quotaClock >= 1 /\ quotaPurged < quotaClock
  /\ EntriesInv
  /\ QuotaCovered

\* What is left of a finite set after a time is finite, and no larger.
LEMMA LaterFinite ==
  ASSUME NEW S, IsFiniteSet(S), NEW h
  PROVE  /\ IsFiniteSet(Later(S, h))
         /\ Cardinality(Later(S, h)) \in Nat
         /\ Cardinality(Later(S, h)) <= Cardinality(S)
         /\ Cardinality(S) \in Nat
<1>1. Later(S, h) \in SUBSET S
  BY DEF Later
<1> QED
  BY <1>1, FS_Subset, FS_CardinalityType

LEMMA SessionsFinite ==
  ASSUME QuotaTypeOK
  PROVE  /\ IsFiniteSet(quotaEntries) /\ IsFiniteSet(quotaActive)
         /\ quotaEntries \in SUBSET Nat /\ quotaActive \in SUBSET Nat
<1> USE DEF QuotaTypeOK
<1>1. quotaClock - 1 \in Int /\ IsFiniteSet(1 .. quotaClock - 1)
  BY FS_Interval
<1>2. IsFiniteSet(quotaEntries) /\ IsFiniteSet(quotaActive)
  BY <1>1, FS_Subset
<1>3. 1 .. quotaClock - 1 \in SUBSET Nat
  OBVIOUS
<1> QED
  BY <1>2, <1>3

LEMMA QuotaInvInit == QuotaInit => QuotaInv
<1> SUFFICES ASSUME QuotaInit PROVE QuotaInv
  OBVIOUS
<1>1. \A h : Later({}, h) = {}
  BY DEF Later
<1>2. Cardinality({}) = 0
  BY FS_EmptySet
<1>3. QuotaCovered
  BY <1>1, <1>2 DEF QuotaInit, QuotaCovered
<1>4. EntriesInv
  BY <1>2, QuotaAssumption DEF QuotaInit, EntriesInv
<1>5. QuotaTypeOK
  BY DEF QuotaInit, QuotaTypeOK
<1> QED
  BY <1>3, <1>4, <1>5 DEF QuotaInit, QuotaInv

\* One more entry: it counts from every moment before it.
LEMMA Entered ==
  ASSUME QuotaInv, NEW h \in quotaPurged .. quotaClock - 1, Admits(h),
         NEW E, E = Later(quotaEntries, h) \cup {quotaClock}
  PROVE  /\ E \subseteq 1 .. quotaClock
         /\ Cardinality(E) <= QuotaMax
         /\ \A k \in h .. quotaClock - 1 :
              Cardinality(Later(E, k)) = Cardinality(Later(quotaEntries, k)) + 1
<1>0. /\ h \in Nat /\ quotaClock \in Nat /\ quotaClock >= 1
      /\ quotaEntries \subseteq 1 .. quotaClock - 1
  BY DEF QuotaInv, QuotaTypeOK
<1>1. IsFiniteSet(quotaEntries) /\ quotaEntries \in SUBSET Nat
  BY SessionsFinite DEF QuotaInv
<1>2. \A k : Later(quotaEntries, k) \subseteq quotaEntries
  BY DEF Later
<1>3. \A k : quotaClock \notin Later(quotaEntries, k)
  BY <1>0, <1>2
<1>4. E \subseteq 1 .. quotaClock
  <2>1. 1 .. quotaClock - 1 \subseteq 1 .. quotaClock /\ quotaClock \in 1 .. quotaClock
    BY <1>0
  <2> QED
    BY <1>0, <1>2, <2>1
<1>5. IsFiniteSet(Later(quotaEntries, h)) /\ Cardinality(Later(quotaEntries, h)) \in Nat
  BY <1>1, LaterFinite
<1>6. Cardinality(E) = Cardinality(Later(quotaEntries, h)) + 1
  BY <1>3, <1>5, FS_AddElement
<1>7. Cardinality(E) <= QuotaMax
  BY <1>5, <1>6, QuotaAssumption DEF Admits
<1>8. ASSUME NEW k \in h .. quotaClock - 1
      PROVE  Cardinality(Later(E, k)) = Cardinality(Later(quotaEntries, k)) + 1
  <2>0. k \in Nat /\ h <= k /\ k < quotaClock
    BY <1>0
  <2>1. Later(quotaEntries, h) \in SUBSET Nat
    BY <1>1, <1>2
  <2>2. Later(E, k) = Later(Later(quotaEntries, h), k) \cup {quotaClock}
    BY <1>0, <2>0, <2>1, LaterAdded
  <2>3. Later(E, k) = Later(quotaEntries, k) \cup {quotaClock}
    BY <1>0, <1>1, <2>0, <2>2, LaterSmaller
  <2>4. IsFiniteSet(Later(quotaEntries, k))
    BY <1>1, LaterFinite
  <2> QED
    BY <1>3, <2>3, <2>4, FS_AddElement
<1> QED
  BY <1>4, <1>7, <1>8

LEMMA QuotaInvBegin ==
  ASSUME QuotaInv, NEW h \in quotaPurged .. quotaClock - 1, Begin(h) \/ BeginUnheard(h)
  PROVE  QuotaInv'
<1>0. /\ h \in Nat /\ quotaClock \in Nat /\ quotaPurged \in Nat /\ quotaExtra \in Nat
      /\ quotaPurged <= h /\ h < quotaClock /\ quotaLosses \in Nat
      /\ quotaEntries \subseteq 1 .. quotaClock - 1 /\ quotaActive \subseteq 1 .. quotaClock - 1
  BY DEF QuotaInv, QuotaTypeOK
<1>1. /\ IsFiniteSet(quotaEntries) /\ IsFiniteSet(quotaActive)
      /\ quotaEntries \in SUBSET Nat /\ quotaActive \in SUBSET Nat
  BY SessionsFinite DEF QuotaInv
<1>2. quotaPurged' = h /\ quotaExtra' = quotaExtra
  BY DEF Begin, BeginUnheard
<1>3. quotaLosses' \in Nat
  BY <1>0 DEF Begin, BeginUnheard
<1>4. \A k \in h .. quotaClock :
        /\ Cardinality(Later(quotaActive, k)) \in Nat
        /\ Cardinality(Later(quotaEntries, k)) \in Nat
        /\ Cardinality(Later(quotaActive, k)) <= Cardinality(Later(quotaEntries, k)) + quotaExtra
  BY <1>0, <1>1, LaterFinite DEF QuotaInv, QuotaCovered
<1>5. CASE Begin(h) /\ ~ Admits(h)
  <2>1. /\ quotaEntries' = Later(quotaEntries, h)
        /\ quotaActive' = quotaActive /\ quotaClock' = quotaClock
    BY <1>5 DEF Begin
  <2>2. ASSUME NEW k \in h .. quotaClock PROVE Later(quotaEntries', k) = Later(quotaEntries, k)
    BY <1>0, <1>1, <2>1, LaterSmaller
  <2>3. QuotaCovered'
    BY <1>2, <1>4, <2>1, <2>2 DEF QuotaCovered
  <2>4. EntriesInv'
    BY <1>1, <2>1, LaterFinite, QuotaAssumption DEF QuotaInv, EntriesInv
  <2>5. quotaEntries' \subseteq 1 .. quotaClock - 1
    BY <1>0, <2>1 DEF Later
  <2>6. QuotaTypeOK'
    BY <1>0, <1>2, <1>3, <2>1, <2>5 DEF QuotaTypeOK
  <2> QED
    BY <1>0, <1>2, <2>1, <2>3, <2>4, <2>6 DEF QuotaInv
<1>6. CASE Admits(h)
  <2>1. /\ quotaEntries' = Later(quotaEntries, h) \cup {quotaClock}
        /\ quotaClock' = quotaClock + 1
        /\ quotaActive' = quotaActive \/ quotaActive' = quotaActive \cup {quotaClock}
    BY <1>6 DEF Begin, BeginUnheard
  <2>2. /\ quotaEntries' \subseteq 1 .. quotaClock
        /\ Cardinality(quotaEntries') <= QuotaMax
        /\ \A k \in h .. quotaClock - 1 :
             Cardinality(Later(quotaEntries', k)) = Cardinality(Later(quotaEntries, k)) + 1
    BY <1>6, <2>1, Entered
  <2>3. quotaActive' \subseteq 1 .. quotaClock
    <3>1. 1 .. quotaClock - 1 \subseteq 1 .. quotaClock /\ quotaClock \in 1 .. quotaClock
      BY <1>0
    <3> QED
      BY <1>0, <2>1, <3>1
  <2>4. IsFiniteSet(quotaEntries') /\ IsFiniteSet(quotaActive')
    <3>1. IsFiniteSet(1 .. quotaClock)
      BY <1>0, FS_Interval
    <3> QED
      BY <2>2, <2>3, <3>1, FS_Subset
  <2>5. ASSUME NEW k \in h .. quotaClock - 1
        PROVE  Cardinality(Later(quotaActive', k)) <= Cardinality(Later(quotaActive, k)) + 1
    <3>1. k \in Nat /\ k < quotaClock
      BY <1>0
    <3>2. \/ Later(quotaActive', k) = Later(quotaActive, k)
          \/ Later(quotaActive', k) = Later(quotaActive, k) \cup {quotaClock}
      BY <1>0, <1>1, <2>1, <3>1, LaterAdded
    <3>3. IsFiniteSet(Later(quotaActive, k)) /\ Cardinality(Later(quotaActive, k)) \in Nat
      BY <1>1, LaterFinite
    <3>4. Cardinality(Later(quotaActive, k) \cup {quotaClock})
            \in {Cardinality(Later(quotaActive, k)), Cardinality(Later(quotaActive, k)) + 1}
      BY <3>3, FS_AddElement
    <3> QED
      BY <3>2, <3>3, <3>4
  <2>6. ASSUME NEW k \in quotaClock .. quotaClock + 1
        PROVE  /\ Cardinality(Later(quotaActive', k)) = 0
               /\ Cardinality(Later(quotaEntries', k)) \in Nat
    <3>1. \A x \in 1 .. quotaClock : ~ (x > k)
      BY <1>0
    <3>2. Later(quotaActive', k) = {}
      BY <2>3, <3>1 DEF Later
    <3> QED
      BY <2>4, <3>2, LaterFinite, FS_EmptySet
  <2>7. QuotaCovered'
    <3> SUFFICES ASSUME NEW k \in h .. quotaClock + 1
                 PROVE  Cardinality(Later(quotaActive', k))
                          <= Cardinality(Later(quotaEntries', k)) + quotaExtra
      BY <1>2, <2>1 DEF QuotaCovered
    <3>1. CASE k \in h .. quotaClock - 1
      <4>1. /\ Cardinality(Later(quotaActive', k)) <= Cardinality(Later(quotaActive, k)) + 1
            /\ Cardinality(Later(quotaEntries', k)) = Cardinality(Later(quotaEntries, k)) + 1
        BY <3>1, <2>2, <2>5
      <4>2. Cardinality(Later(quotaActive', k)) \in Nat
        BY <2>4, LaterFinite
      <4>3. k \in h .. quotaClock
        BY <1>0, <3>1
      <4> QED
        BY <1>0, <1>4, <4>1, <4>2, <4>3
    <3>2. CASE k \in quotaClock .. quotaClock + 1
      BY <1>0, <3>2, <2>6
    <3> QED
      BY <1>0, <3>1, <3>2
  <2>8. QuotaTypeOK'
    <3>1. quotaClock' - 1 = quotaClock
      BY <1>0, <2>1
    <3> QED
      BY <1>0, <1>2, <1>3, <2>1, <2>2, <2>3, <3>1 DEF QuotaTypeOK
  <2>9. EntriesInv' /\ quotaClock' >= 1 /\ quotaPurged' < quotaClock'
    BY <1>0, <1>2, <2>1, <2>2 DEF EntriesInv
  <2> QED
    BY <2>7, <2>8, <2>9 DEF QuotaInv
<1> QED
  BY <1>5, <1>6 DEF Begin, BeginUnheard

\* zpopmin takes one entry, and none is older; or none, and then nothing changes.
LEMMA PoppedOne ==
  ASSUME QuotaTypeOK
  PROVE  \/ Popped = {}
         \/ \E e \in quotaEntries : Popped = {e} /\ \A f \in quotaEntries : e <= f
<1>1. \A e \in quotaEntries : e \in Nat
  BY DEF QuotaTypeOK
<1>2. ASSUME NEW e \in Popped PROVE Popped = {e} /\ e \in quotaEntries
                                    /\ \A f \in quotaEntries : e <= f
  <2>1. ASSUME NEW f \in Popped PROVE f = e
    BY <1>1, <1>2, <2>1 DEF Popped
  <2>2. e \in quotaEntries /\ \A f \in quotaEntries : e <= f
    BY <1>2 DEF Popped
  <2> QED
    BY <1>2, <2>1, <2>2
<1> QED
  BY <1>2

\* end takes the oldest entry e.  Let a moment k and the session s be given.  If e
\* is not after k, no entry after k is gone.  If both are after k, one of each is
\* gone.  If e is after k and s is not, all entries are after s - 1 as well: the
\* session s was covered by one of them, which is the one to spare.
LEMMA QuotaInvEnd ==
  ASSUME QuotaInv, NEW s \in quotaActive, End(s) \/ EndUnheard(s)
  PROVE  QuotaInv'
<1>0. /\ quotaClock \in Nat /\ quotaPurged \in Nat /\ quotaExtra \in Nat /\ quotaLosses \in Nat
      /\ quotaEntries \subseteq 1 .. quotaClock - 1 /\ quotaActive \subseteq 1 .. quotaClock - 1
      /\ s \in Nat /\ s < quotaClock
  BY DEF QuotaInv, QuotaTypeOK
<1>1. /\ IsFiniteSet(quotaEntries) /\ IsFiniteSet(quotaActive)
      /\ quotaEntries \in SUBSET Nat /\ quotaActive \in SUBSET Nat
  BY SessionsFinite DEF QuotaInv
<1>2. /\ quotaPurged' = quotaPurged /\ quotaClock' = quotaClock
      /\ quotaEntries' = quotaEntries \ Popped
      /\ quotaActive' = quotaActive \/ quotaActive' = quotaActive \ {s}
  BY DEF End, EndUnheard
<1>3. quotaLosses' \in Nat
  BY <1>0 DEF End, EndUnheard
<1>4. Cardinality(Popped) \in Nat /\ Cardinality(Popped) <= 1
  <2>1. CASE Popped = {}
    BY <2>1, FS_EmptySet
  <2>2. ASSUME NEW e, Popped = {e} PROVE Cardinality(Popped) = 1
    BY <2>2, FS_Singleton
  <2> QED
    BY <2>1, <2>2, PoppedOne DEF QuotaInv
<1>5. quotaExtra' \in Nat /\ quotaExtra' >= quotaExtra
  BY <1>0, <1>4 DEF End, EndUnheard
<1>6. IsFiniteSet(quotaEntries') /\ IsFiniteSet(quotaActive')
  BY <1>1, <1>2, FS_Subset
<1>7. \A k :
        /\ Cardinality(Later(quotaActive, k)) \in Nat
        /\ Cardinality(Later(quotaEntries, k)) \in Nat
        /\ Cardinality(Later(quotaActive', k)) \in Nat
        /\ Cardinality(Later(quotaEntries', k)) \in Nat
  BY <1>1, <1>6, LaterFinite
<1>8. ASSUME NEW k PROVE Cardinality(Later(quotaActive', k)) <= Cardinality(Later(quotaActive, k))
  <2>1. Later(quotaActive', k) \in SUBSET Later(quotaActive, k)
    BY <1>2 DEF Later
  <2> QED
    BY <1>1, <2>1, LaterFinite, FS_Subset
<1>9. ASSUME NEW k \in quotaPurged .. quotaClock
      PROVE  Cardinality(Later(quotaActive', k))
               <= Cardinality(Later(quotaEntries', k)) + quotaExtra'
  <2>0. k \in Nat /\ quotaPurged <= k
    BY <1>0
  <2>1. Cardinality(Later(quotaActive, k)) <= Cardinality(Later(quotaEntries, k)) + quotaExtra
    BY DEF QuotaInv, QuotaCovered
  <2>2. CASE Popped = {}
    BY <1>0, <1>2, <1>5, <1>7, <1>8, <2>1, <2>2
  <2>3. ASSUME NEW e \in quotaEntries, Popped = {e}, \A f \in quotaEntries : e <= f
        PROVE  Cardinality(Later(quotaActive', k))
                 <= Cardinality(Later(quotaEntries', k)) + quotaExtra'
    <3>0. e \in Nat
      BY <1>1
    <3>1. CASE e <= k
      <4>1. Later(quotaEntries', k) = Later(quotaEntries, k)
        <5>1. ASSUME NEW x \in quotaEntries PROVE x \in Later(quotaEntries', k) <=> x > k
          BY <1>2, <2>0, <2>3, <3>0, <3>1, LaterMember
        <5> QED
          BY <1>2, <5>1 DEF Later
      <4> QED
        BY <1>0, <1>5, <1>7, <1>8, <2>1, <4>1
    <3>2. CASE e > k
      <4>1. /\ Later(quotaEntries', k) = quotaEntries \ {e}
            /\ Later(quotaEntries, k) = quotaEntries
        <5>1. \A x \in quotaEntries : x > k
          BY <1>1, <2>0, <2>3, <3>0, <3>2
        <5> QED
          BY <1>2, <2>3, <5>1 DEF Later
      <4>2. /\ Cardinality(quotaEntries \ {e}) = Cardinality(quotaEntries) - 1
            /\ Cardinality(quotaEntries) \in Nat
        BY <1>1, <2>3, FS_RemoveElement, FS_CardinalityType
      <4>3. CASE quotaExtra' = quotaExtra + 1
        BY <1>0, <1>7, <1>8, <2>1, <4>1, <4>2, <4>3
      <4>4. CASE /\ s > quotaPurged /\ quotaActive' = quotaActive \ {s}
                 /\ quotaExtra' = quotaExtra
        <5>1. CASE s > k
          <6>1. Later(quotaActive', k) = Later(quotaActive, k) \ {s} /\ s \in Later(quotaActive, k)
            BY <4>4, <5>1 DEF Later
          <6>2. Cardinality(Later(quotaActive', k)) = Cardinality(Later(quotaActive, k)) - 1
            BY <1>1, <6>1, LaterFinite, FS_RemoveElement
          <6> QED
            BY <1>0, <1>7, <2>1, <4>1, <4>2, <4>4, <6>2
        <5>2. CASE s <= k
          <6> DEFINE m == s - 1
          <6>0. m \in quotaPurged .. quotaClock /\ m \in Nat /\ m < s /\ m < k
            BY <1>0, <2>0, <4>4, <5>2
          <6>1. Later(quotaEntries, m) = quotaEntries
            <7>1. \A x \in quotaEntries : x > m
              BY <1>1, <2>0, <2>3, <3>0, <3>2, <6>0
            <7> QED
              BY <7>1 DEF Later
          <6>2. Cardinality(Later(quotaActive, m)) <= Cardinality(quotaEntries) + quotaExtra
            BY <6>0, <6>1 DEF QuotaInv, QuotaCovered
          <6>3. Later(quotaActive, k) \cup {s} \in SUBSET Later(quotaActive, m)
            <7>1. ASSUME NEW x \in quotaActive, x > k PROVE x > m
              BY <1>1, <2>0, <6>0, <7>1
            <7> QED
              BY <6>0, <7>1 DEF Later
          <6>4. s \notin Later(quotaActive, k)
            BY <2>0, <1>0, <5>2 DEF Later
          <6>5. Cardinality(Later(quotaActive, k) \cup {s}) = Cardinality(Later(quotaActive, k)) + 1
            BY <1>1, <6>4, LaterFinite, FS_AddElement
          <6>6. Cardinality(Later(quotaActive, k)) + 1 <= Cardinality(Later(quotaActive, m))
            BY <1>1, <6>3, <6>5, LaterFinite, FS_Subset
          <6> HIDE DEF m
          <6> QED
            BY <1>0, <1>7, <1>8, <4>1, <4>2, <4>4, <6>2, <6>6
        <5> QED
          BY <1>0, <2>0, <5>1, <5>2
      <4>5. Cardinality(Popped) = 1
        BY <2>3, FS_Singleton
      <4> QED
        BY <1>0, <4>3, <4>4, <4>5 DEF End, EndUnheard
    <3> QED
      BY <2>0, <3>0, <3>1, <3>2
  <2> QED
    BY <2>2, <2>3, PoppedOne DEF QuotaInv
<1>10. QuotaCovered'
  BY <1>2, <1>9 DEF QuotaCovered
<1>11. EntriesInv'
  <2>1. quotaEntries' \in SUBSET quotaEntries
    BY <1>2
  <2>2. /\ Cardinality(quotaEntries') <= Cardinality(quotaEntries)
        /\ Cardinality(quotaEntries') \in Nat /\ Cardinality(quotaEntries) \in Nat
    BY <1>1, <2>1, FS_Subset, FS_CardinalityType
  <2> QED
    BY <2>2, QuotaAssumption DEF QuotaInv, EntriesInv
<1>12. QuotaTypeOK'
  BY <1>0, <1>2, <1>3, <1>5 DEF QuotaTypeOK
<1> QED
  BY <1>2, <1>10, <1>11, <1>12 DEF QuotaInv

LEMMA QuotaInvStep == QuotaInv /\ [QuotaNext]_quotaVars => QuotaInv'
<1> SUFFICES ASSUME QuotaInv, [QuotaNext]_quotaVars PROVE QuotaInv'
  OBVIOUS
<1>1. CASE QuotaNext
  BY <1>1, QuotaInvBegin, QuotaInvEnd DEF QuotaNext
<1>2. CASE UNCHANGED quotaVars
  BY <1>2 DEF quotaVars, QuotaInv, QuotaTypeOK, EntriesInv, QuotaCovered, Later
<1> QED
  BY <1>1, <1>2

LEMMA CoveredHolds == QuotaInv => QuotaHolds
<1> SUFFICES ASSUME QuotaInv PROVE QuotaHolds
  OBVIOUS
<1>1. IsFiniteSet(quotaEntries) /\ IsFiniteSet(quotaActive)
  BY SessionsFinite DEF QuotaInv
<1>2. quotaPurged \in quotaPurged .. quotaClock /\ quotaExtra \in Nat
  BY DEF QuotaInv, QuotaTypeOK
<1>3. Cardinality(Later(quotaActive, quotaPurged))
        <= Cardinality(Later(quotaEntries, quotaPurged)) + quotaExtra
  BY <1>2 DEF QuotaInv, QuotaCovered
<1>4. /\ Cardinality(Later(quotaActive, quotaPurged)) \in Nat
      /\ Cardinality(Later(quotaEntries, quotaPurged)) \in Nat
      /\ Cardinality(quotaEntries) \in Nat
      /\ Cardinality(Later(quotaEntries, quotaPurged)) <= Cardinality(quotaEntries)
  BY <1>1, LaterFinite
<1> QED
  BY <1>2, <1>3, <1>4, QuotaAssumption DEF QuotaInv, EntriesInv, QuotaHolds

\* At every moment no more sessions that have not timed out run than max_quota
\* and the late and repeated ends allow: user_quota_tracker.py removes the oldest
\* entry at whichever session's end, and need not know whose it is.
THEOREM QuotaKept == QuotaSpec => []QuotaHolds
<1> QED
  BY QuotaInvInit, QuotaInvStep, CoveredHolds, PTL DEF QuotaSpec

----------------------------------------------------------------------------
\* The priority queue.

\* While a push has not returned, each of its copies in the queue or handed out
\* comes from an execution that was not heard of; and it is the latest push of
\* its producer.
OpenUnheard ==
  \A i \in pqOpen : pqTaken[i] + (IF i \in pqIn THEN 1 ELSE 0) <= pqRepeated[i]

OpenLatest ==
  \A i \in pqOpen, j \in DOMAIN pqPushes : pqPushes[j].by = pqPushes[i].by => j <= i

LastPushed ==
  \A pr \in PqProducers \X PqRanks : pqLast[pr] # 0 =>
    pqLast[pr] \in DOMAIN pqPushes /\ pqPushes[pqLast[pr]].by = pr[1]

PqInv == PqTypeOK /\ OpenUnheard /\ OpenLatest /\ LastPushed /\ PqAccounted /\ PqInOrder

PushRecords == [by : PqProducers, priority : PqPriorities, vip : BOOLEAN]

\* A finite set of integers that is not empty has a greatest element.
LEMMA FiniteHasMax ==
  ASSUME NEW S \in SUBSET Int, IsFiniteSet(S), S # {}
  PROVE  \E m \in S : \A k \in S : k <= m
<1> DEFINE Above(k) == {x \in S : x > k}
           T == {U \in SUBSET S : \E k \in S : U = Above(k)}
<1>1. T \subseteq FiniteSubsetsOf(S) /\ T # {}
  <2>1. \A U \in SUBSET S : IsFiniteSet(U)
    BY FS_Subset
  <2>2. PICK k \in S : TRUE
    OBVIOUS
  <2>3. Above(k) \in T
    OBVIOUS
  <2> QED
    BY <2>1, <2>3 DEF FiniteSubsetsOf
<1> HIDE DEF T
<1>2. PICK U \in T : \A V \in T : <<V, U>> \notin StrictSubsetOrdering(S)
  BY <1>1, FS_StrictSubsetOrderingWellFounded, WFMin
<1>3. PICK k \in S : U = Above(k)
  BY DEF T
<1>4. ASSUME NEW x \in S, x > k PROVE FALSE
  <2>1. Above(x) \in T /\ U \in SUBSET S
    BY DEF T
  <2>2. x \in Int /\ k \in Int /\ \A y \in S : y \in Int
    OBVIOUS
  <2>3. Above(x) \subseteq U
    <3>1. ASSUME NEW y \in S, y > x PROVE y > k
      BY <1>4, <2>2, <3>1
    <3> QED
      BY <1>3, <3>1
  <2>4. x \in U /\ x \notin Above(x)
    BY <1>3, <1>4, <2>2
  <2>5. <<Above(x), U>> \in StrictSubsetOrdering(S)
    BY <2>1, <2>3, <2>4 DEF StrictSubsetOrdering
  <2> QED
    BY <1>2, <2>1, <2>5
<1> QED
  BY <1>4

LEMMA PqInvInit == PqInit => PqInv
<1> SUFFICES ASSUME PqInit PROVE PqInv
  OBVIOUS
<1>1. DOMAIN pqPushes = {} /\ pqPushes \in Seq(PushRecords)
  BY DEF PqInit
<1>2. PqTypeOK
  BY <1>1 DEF PqInit, PqTypeOK, PushRecords
<1> QED
  BY <1>1, <1>2 DEF PqInit, PqInv, OpenUnheard, OpenLatest, LastPushed, PqAccounted, PqInOrder

\* The pushes are numbered.
LEMMA PqPlaces ==
  ASSUME PqTypeOK
  PROVE  /\ Len(pqPushes) \in Nat /\ DOMAIN pqPushes = 1 .. Len(pqPushes)
         /\ \A i \in DOMAIN pqPushes : /\ pqPushes[i] \in PushRecords /\ i \in Nat \ {0}
                                       /\ RankOf(i) \in PqRanks
                                       /\ <<pqPushes[i].by, RankOf(i)>> \in PqProducers \X PqRanks
         /\ pqRepeated \in Seq(Nat) /\ Len(pqRepeated) = Len(pqPushes)
         /\ pqTaken \in Seq(Nat) /\ Len(pqTaken) = Len(pqPushes)
         /\ IsFiniteSet(pqIn) /\ IsFiniteSet(DOMAIN pqPushes)
<1>1. pqPushes \in Seq(PushRecords) /\ Len(pqPushes) \in Nat /\ DOMAIN pqPushes = 1 .. Len(pqPushes)
  BY LenProperties DEF PqTypeOK, PushRecords
<1>2. \A i \in DOMAIN pqPushes : pqPushes[i] \in PushRecords /\ i \in Nat \ {0}
  BY <1>1, ElementOfSeq
<1>3. \A i \in DOMAIN pqPushes : RankOf(i) \in PqRanks
  BY <1>2 DEF RankOf, PqRanks, PushRecords
<1>4. pqRepeated \in [1 .. Len(pqPushes) -> Nat] /\ pqTaken \in [1 .. Len(pqPushes) -> Nat]
  BY <1>1 DEF PqTypeOK
<1>5. pqRepeated \in Seq(Nat) /\ Len(pqRepeated) = Len(pqPushes)
  BY <1>1, <1>4
<1>6. pqTaken \in Seq(Nat) /\ Len(pqTaken) = Len(pqPushes)
  BY <1>1, <1>4
<1>7. IsFiniteSet(DOMAIN pqPushes)
  BY <1>1, FS_Interval
<1>8. IsFiniteSet(pqIn)
  BY <1>7, FS_Subset DEF PqTypeOK
<1>9. \A i \in DOMAIN pqPushes : <<pqPushes[i].by, RankOf(i)>> \in PqProducers \X PqRanks
  BY <1>2, <1>3 DEF PushRecords
<1> QED
  BY <1>1, <1>2, <1>3, <1>5, <1>6, <1>7, <1>8, <1>9

LEMMA PqInvPushCall ==
  ASSUME PqInv, NEW p \in PqProducers, NEW priority \in PqPriorities, NEW vip \in BOOLEAN,
         PushCall(p, priority, vip)
  PROVE  PqInv'
<1> USE DEF PqInv
<1> DEFINE n == Len(pqPushes)
           push == [by |-> p, priority |-> priority, vip |-> vip]
<1>1. /\ n \in Nat /\ DOMAIN pqPushes = 1 .. n
      /\ \A i \in DOMAIN pqPushes : pqPushes[i] \in PushRecords /\ i \in Nat \ {0}
      /\ pqRepeated \in Seq(Nat) /\ Len(pqRepeated) = n
      /\ pqTaken \in Seq(Nat) /\ Len(pqTaken) = n
  BY PqPlaces
<1>2. /\ pqPushes' = Append(pqPushes, push) /\ pqOpen' = pqOpen \cup {n + 1}
      /\ pqRepeated' = Append(pqRepeated, 0) /\ pqTaken' = Append(pqTaken, 0)
      /\ UNCHANGED <<pqIn, pqLast, pqLosses>>
      /\ \A i \in pqOpen : pqPushes[i].by # p
  BY DEF PushCall
<1>3. push \in PushRecords /\ pqPushes \in Seq(PushRecords) /\ push.by = p
  BY DEF PushRecords, PqTypeOK
<1> HIDE DEF push
<1>4. /\ pqPushes' \in Seq(PushRecords) /\ DOMAIN pqPushes' = 1 .. (n + 1)
      /\ \A i \in 1 .. n : pqPushes'[i] = pqPushes[i]
      /\ pqPushes'[n + 1] = push
  <2>1. /\ Append(pqPushes, push) \in Seq(PushRecords)
        /\ Len(Append(pqPushes, push)) = n + 1
        /\ \A i \in 1 .. n : Append(pqPushes, push)[i] = pqPushes[i]
        /\ Append(pqPushes, push)[n + 1] = push
    BY <1>3, AppendProperties
  <2> QED
    BY <1>2, <2>1, LenProperties
<1>5. /\ pqRepeated' \in [1 .. (n + 1) -> Nat] /\ pqRepeated'[n + 1] = 0
      /\ \A i \in 1 .. n : pqRepeated'[i] = pqRepeated[i]
  <2>1. /\ Append(pqRepeated, 0) \in Seq(Nat)
        /\ Len(Append(pqRepeated, 0)) = n + 1
        /\ \A i \in 1 .. n : Append(pqRepeated, 0)[i] = pqRepeated[i]
        /\ Append(pqRepeated, 0)[n + 1] = 0
    BY <1>1, AppendProperties
  <2> QED
    BY <1>2, <2>1, LenProperties
<1>6. /\ pqTaken' \in [1 .. (n + 1) -> Nat] /\ pqTaken'[n + 1] = 0
      /\ \A i \in 1 .. n : pqTaken'[i] = pqTaken[i]
  <2>1. /\ Append(pqTaken, 0) \in Seq(Nat)
        /\ Len(Append(pqTaken, 0)) = n + 1
        /\ \A i \in 1 .. n : Append(pqTaken, 0)[i] = pqTaken[i]
        /\ Append(pqTaken, 0)[n + 1] = 0
    BY <1>1, AppendProperties
  <2> QED
    BY <1>2, <2>1, LenProperties
<1>7. pqIn \subseteq 1 .. n /\ pqOpen \subseteq 1 .. n
  BY <1>1 DEF PqTypeOK
<1> HIDE DEF n
<1>8. PqTypeOK'
  BY <1>1, <1>2, <1>4, <1>5, <1>6, <1>7 DEF PqTypeOK, PushRecords
<1>9. \A i \in 1 .. n + 1 : i # n + 1 => i \in 1 .. n
  BY <1>1
<1>10. n + 1 \notin pqIn
  BY <1>1, <1>7
<1>11. OpenUnheard'
  <2> SUFFICES ASSUME NEW i \in pqOpen \cup {n + 1}
               PROVE  pqTaken'[i] + (IF i \in pqIn THEN 1 ELSE 0) <= pqRepeated'[i]
    BY <1>2 DEF OpenUnheard
  <2>1. CASE i = n + 1
    BY <1>5, <1>6, <1>10, <2>1
  <2>2. CASE i \in pqOpen
    BY <1>5, <1>6, <1>7, <2>2 DEF OpenUnheard
  <2> QED
    BY <2>1, <2>2
<1>12. OpenLatest'
  <2> SUFFICES ASSUME NEW i \in pqOpen \cup {n + 1}, NEW j \in 1 .. n + 1,
                      pqPushes'[j].by = pqPushes'[i].by
               PROVE  j <= i
    BY <1>2, <1>4 DEF OpenLatest
  <2>1. CASE i = n + 1
    BY <1>1, <2>1
  <2>2. CASE i \in pqOpen /\ j = n + 1
    BY <1>2, <1>3, <1>4, <1>7, <2>2
  <2>3. CASE i \in pqOpen /\ j \in 1 .. n
    BY <1>1, <1>4, <1>7, <2>3 DEF OpenLatest
  <2> QED
    BY <1>9, <2>1, <2>2, <2>3
<1>13. LastPushed'
  <2>1. \A i \in DOMAIN pqPushes : i \in DOMAIN pqPushes' /\ pqPushes'[i] = pqPushes[i]
    BY <1>1, <1>4
  <2> QED
    BY <1>2, <2>1 DEF LastPushed, PqRanks
<1>14. PqAccounted'
  <2> SUFFICES ASSUME NEW i \in 1 .. n + 1
               PROVE  LET copies == pqTaken'[i] + (IF i \in pqIn THEN 1 ELSE 0)
                      IN  /\ copies <= 1 + pqRepeated'[i]
                          /\ i \notin pqOpen' => copies >= 1
    BY <1>2, <1>4 DEF PqAccounted
  <2>1. CASE i = n + 1
    BY <1>2, <1>5, <1>6, <1>10, <2>1
  <2>2. CASE i \in 1 .. n
    BY <1>1, <1>2, <1>5, <1>6, <2>2 DEF PqAccounted
  <2> QED
    BY <1>9, <2>1, <2>2
<1>15. PqInOrder'
  BY <1>2, <1>4, <1>7 DEF PqInOrder, RankOf
<1> QED
  BY <1>8, <1>11, <1>12, <1>13, <1>14, <1>15

\* Pushing again what an open push pushes: it is the latest push of its producer,
\* so nothing popped from that producer is younger.
LEMMA OpenInOrder ==
  ASSUME PqInv, NEW i \in pqOpen
  PROVE  /\ pqLast[<<pqPushes[i].by, RankOf(i)>>] <= i
         /\ i \in DOMAIN pqPushes
<1> USE DEF PqInv
<1>1. i \in DOMAIN pqPushes
  BY DEF PqTypeOK
<1> DEFINE pr == <<pqPushes[i].by, RankOf(i)>>
<1>2. pr \in PqProducers \X PqRanks /\ pr[1] = pqPushes[i].by /\ i \in Nat
  BY <1>1, PqPlaces
<1> HIDE DEF pr
<1>3. ASSUME pqLast[pr] = 0 PROVE pqLast[pr] <= i
  BY <1>2, <1>3
<1>4. ASSUME pqLast[pr] # 0 PROVE pqLast[pr] <= i
  BY <1>2, <1>4 DEF LastPushed, OpenLatest
<1>5. pqLast[pr] <= i
  BY <1>3, <1>4
<1> QED
  BY <1>1, <1>5 DEF pr

LEMMA PqInvPush ==
  ASSUME PqInv, NEW i \in pqOpen, Push(i)
  PROVE  PqInv'
<1> USE DEF PqInv
<1>1. /\ pqIn' = pqIn \cup {i} /\ pqOpen' = pqOpen \ {i}
      /\ UNCHANGED <<pqPushes, pqRepeated, pqTaken, pqLast, pqLosses>>
  BY DEF Push
<1>2. /\ i \in DOMAIN pqPushes
      /\ \A j \in DOMAIN pqPushes : pqRepeated[j] \in Nat /\ pqTaken[j] \in Nat
  BY DEF PqTypeOK
<1>3. PqTypeOK'
  BY <1>1, <1>2 DEF PqTypeOK
<1>4. OpenUnheard' /\ OpenLatest' /\ LastPushed'
  BY <1>1 DEF OpenUnheard, OpenLatest, LastPushed, PqRanks
<1>5. PqAccounted'
  <2> SUFFICES ASSUME NEW j \in DOMAIN pqPushes
               PROVE  /\ pqTaken[j] + (IF j \in pqIn' THEN 1 ELSE 0) <= 1 + pqRepeated[j]
                      /\ j \notin pqOpen' => pqTaken[j] + (IF j \in pqIn' THEN 1 ELSE 0) >= 1
    BY <1>1 DEF PqAccounted
  <2>1. CASE j = i
    <3>1. pqTaken[i] <= pqRepeated[i]
      BY <1>2 DEF OpenUnheard
    <3> QED
      BY <1>1, <1>2, <2>1, <3>1
  <2>2. CASE j # i
    BY <1>1, <1>2, <2>2 DEF PqAccounted
  <2> QED
    BY <2>1, <2>2
<1>6. PqInOrder'
  BY <1>1, OpenInOrder DEF PqInOrder, RankOf
<1> QED
  BY <1>3, <1>4, <1>5, <1>6

LEMMA PqInvPushUnheard ==
  ASSUME PqInv, NEW i \in pqOpen, PushUnheard(i)
  PROVE  PqInv'
<1> USE DEF PqInv
<1>1. /\ pqIn' = pqIn \cup {i} /\ pqRepeated' = [pqRepeated EXCEPT ![i] = @ + 1]
      /\ pqLosses' = pqLosses + 1 /\ UNCHANGED <<pqPushes, pqOpen, pqTaken, pqLast>>
  BY DEF PushUnheard, LosePqReply
<1>2. /\ i \in DOMAIN pqPushes
      /\ \A j \in DOMAIN pqPushes : pqRepeated[j] \in Nat /\ pqTaken[j] \in Nat
  BY DEF PqTypeOK
<1>3. /\ pqRepeated' \in [DOMAIN pqPushes -> Nat] /\ pqRepeated'[i] = pqRepeated[i] + 1
      /\ \A j \in DOMAIN pqPushes : j # i => pqRepeated'[j] = pqRepeated[j]
  BY <1>1, <1>2 DEF PqTypeOK
<1>4. PqTypeOK'
  BY <1>1, <1>2, <1>3 DEF PqTypeOK
<1>5. OpenLatest' /\ LastPushed'
  BY <1>1 DEF OpenLatest, LastPushed, PqRanks
<1>6. pqTaken[i] <= pqRepeated[i]
  BY <1>2 DEF OpenUnheard
<1>7. OpenUnheard'
  <2> SUFFICES ASSUME NEW j \in pqOpen
               PROVE  pqTaken[j] + (IF j \in pqIn' THEN 1 ELSE 0) <= pqRepeated'[j]
    BY <1>1 DEF OpenUnheard
  <2>1. j \in DOMAIN pqPushes
    BY DEF PqTypeOK
  <2>2. CASE j = i
    BY <1>1, <1>2, <1>3, <1>6, <2>2
  <2>3. CASE j # i
    BY <1>1, <1>3, <2>1, <2>3 DEF OpenUnheard
  <2> QED
    BY <2>2, <2>3
<1>8. PqAccounted'
  <2> SUFFICES ASSUME NEW j \in DOMAIN pqPushes
               PROVE  /\ pqTaken[j] + (IF j \in pqIn' THEN 1 ELSE 0) <= 1 + pqRepeated'[j]
                      /\ j \notin pqOpen => pqTaken[j] + (IF j \in pqIn' THEN 1 ELSE 0) >= 1
    BY <1>1 DEF PqAccounted
  <2>1. CASE j = i
    BY <1>1, <1>2, <1>3, <1>6, <2>1
  <2>2. CASE j # i
    BY <1>1, <1>2, <1>3, <2>2 DEF PqAccounted
  <2> QED
    BY <2>1, <2>2
<1>9. PqInOrder'
  BY <1>1, OpenInOrder DEF PqInOrder, RankOf
<1> QED
  BY <1>4, <1>5, <1>7, <1>8, <1>9

\* Taking members from the queue moves each from pqIn to pqTaken.
LEMMA TakeKeeps ==
  ASSUME PqInv, NEW S \in SUBSET pqIn, Take(S), pqLosses' \in Nat,
         pqLast' \in [PqProducers \X PqRanks -> Nat]
  PROVE  PqTypeOK' /\ OpenUnheard' /\ OpenLatest' /\ PqAccounted'
<1> USE DEF PqInv
<1>1. /\ pqIn' = pqIn \ S /\ UNCHANGED <<pqPushes, pqOpen, pqRepeated>>
      /\ pqTaken' = [i \in DOMAIN pqTaken |-> IF i \in S THEN pqTaken[i] + 1 ELSE pqTaken[i]]
  BY DEF Take
<1>2. /\ DOMAIN pqTaken = DOMAIN pqPushes
      /\ \A j \in DOMAIN pqPushes : pqRepeated[j] \in Nat /\ pqTaken[j] \in Nat
  BY DEF PqTypeOK
<1>3. pqTaken' \in [DOMAIN pqPushes -> Nat]
  BY <1>1, <1>2
<1>4. \A i \in DOMAIN pqPushes :
        pqTaken'[i] + (IF i \in pqIn' THEN 1 ELSE 0) = pqTaken[i] + (IF i \in pqIn THEN 1 ELSE 0)
  <2> TAKE i \in DOMAIN pqPushes
  <2>1. CASE i \in S
    BY <1>1, <1>2, <2>1
  <2>2. CASE i \notin S
    BY <1>1, <1>2, <2>2
  <2> QED
    BY <2>1, <2>2
<1>5. PqTypeOK'
  BY <1>1, <1>3 DEF PqTypeOK, PqRanks
<1>6. pqOpen \subseteq DOMAIN pqPushes
  BY DEF PqTypeOK
<1>7. OpenUnheard'
  BY <1>1, <1>4, <1>6 DEF OpenUnheard
<1>8. PqAccounted'
  BY <1>1, <1>4 DEF PqAccounted
<1> QED
  BY <1>1, <1>5, <1>7, <1>8 DEF OpenLatest

LEMMA PqInvTake ==
  ASSUME PqInv, NEW S \in SUBSET pqIn, Take(S), LosePqReply \/ UNCHANGED pqLosses,
         UNCHANGED pqLast
  PROVE  PqInv'
<1> USE DEF PqInv
<1>1. pqLosses' \in Nat /\ pqLast' \in [PqProducers \X PqRanks -> Nat]
  BY DEF PqTypeOK, LosePqReply
<1>2. PqTypeOK' /\ OpenUnheard' /\ OpenLatest' /\ PqAccounted'
  BY <1>1, TakeKeeps
<1>3. pqIn' = pqIn \ S /\ UNCHANGED pqPushes
  BY DEF Take
<1>4. LastPushed' /\ PqInOrder'
  BY <1>3 DEF LastPushed, PqInOrder, RankOf, PqRanks
<1> QED
  BY <1>2, <1>4

\* Of one producer and one rank, what stays in the queue is younger than what is
\* taken from its front.
LEMMA TakenOlder ==
  ASSUME PqTypeOK, NEW n \in Nat, NEW i \in pqIn, NEW j \in First(pqIn, n),
         i \notin First(pqIn, n), RankOf(i) = RankOf(j)
  PROVE  j <= i
<1>1. i \in Nat /\ j \in Nat /\ j \in pqIn
  BY PqPlaces DEF PqTypeOK, First
<1>2. pqPushes[i].priority = pqPushes[j].priority /\ pqPushes[i].vip = pqPushes[j].vip
  BY DEF RankOf
<1>3. ASSUME i < j PROVE FALSE
  <2> DEFINE A == {k \in pqIn : Before(k, i)}
             B == {k \in pqIn : Before(k, j)}
  <2>1. \A k \in pqIn : k \in Nat
    BY PqPlaces DEF PqTypeOK
  <2>2. A \subseteq B
    <3>1. \A k \in pqIn : k < i => k < j
      BY <1>1, <1>3, <2>1
    <3>2. \A k \in pqIn : Before(k, i) => Before(k, j)
      BY <1>2, <3>1, Zenon DEF Before
    <3> QED
      BY <3>2
  <2>3. IsFiniteSet(A) /\ IsFiniteSet(B) /\ A \in SUBSET B
    BY <2>2, PqPlaces, FS_Subset
  <2>4. Cardinality(A) \in Nat /\ Cardinality(B) \in Nat /\ Cardinality(A) <= Cardinality(B)
    BY <2>3, FS_Subset, FS_CardinalityType
  <2>5. Cardinality(B) < n /\ ~ (Cardinality(A) < n)
    BY DEF First
  <2> HIDE DEF A, B
  <2> QED
    BY <2>4, <2>5
<1> QED
  BY <1>1, <1>3

LEMMA PqInvPop ==
  ASSUME PqInv, NEW n \in 1 .. 2, Pop(n)
  PROVE  PqInv'
<1> USE DEF PqInv
<1> DEFINE S == First(pqIn, n)
           latest(p, r) == {i \in S : pqPushes[i].by = p /\ RankOf(i) = r}
<1>1. /\ Take(S) /\ UNCHANGED pqLosses
      /\ pqLast' = [pr \in DOMAIN pqLast |->
                      IF latest(pr[1], pr[2]) = {} THEN pqLast[pr] ELSE Max(latest(pr[1], pr[2]))]
  BY DEF Pop
<1>2. S \subseteq pqIn
  BY DEF First
<1>3. \A i \in S : i \in Nat \ {0} /\ i \in DOMAIN pqPushes
  BY <1>2, PqPlaces DEF PqTypeOK
<1> HIDE DEF S
<1>4. \A p, r : latest(p, r) # {} => Max(latest(p, r)) \in latest(p, r)
  <2> SUFFICES ASSUME NEW p, NEW r, latest(p, r) # {}
               PROVE  Max(latest(p, r)) \in latest(p, r)
    OBVIOUS
  <2>1. IsFiniteSet(latest(p, r)) /\ latest(p, r) \in SUBSET Int
    BY <1>2, <1>3, PqPlaces, FS_Subset
  <2>2. PICK m \in latest(p, r) : \A k \in latest(p, r) : k <= m
    BY <2>1, FiniteHasMax
  <2>3. \A k \in latest(p, r) : m >= k
    BY <2>1, <2>2
  <2> HIDE DEF latest
  <2> QED
    BY <2>2, <2>3 DEF Max
<1>5. DOMAIN pqLast = PqProducers \X PqRanks
  BY DEF PqTypeOK
<1>6. ASSUME NEW pr \in PqProducers \X PqRanks, pqLast'[pr] # pqLast[pr]
      PROVE  pqLast'[pr] \in latest(pr[1], pr[2])
  <2>1. pqLast'[pr] = IF latest(pr[1], pr[2]) = {} THEN pqLast[pr] ELSE Max(latest(pr[1], pr[2]))
    BY <1>1, <1>5
  <2> HIDE DEF latest
  <2> QED
    BY <1>4, <1>6, <2>1
<1>7. /\ pqLast' \in [PqProducers \X PqRanks -> Nat]
      /\ DOMAIN pqLast' = PqProducers \X PqRanks
  <2>1. \A pr \in PqProducers \X PqRanks : pqLast'[pr] \in Nat
    BY <1>3, <1>6 DEF PqTypeOK
  <2>2. pqLast' = [pr \in PqProducers \X PqRanks |-> pqLast'[pr]]
    BY <1>1, <1>5
  <2> QED
    BY <2>1, <2>2
<1>8. pqLosses' \in Nat
  BY <1>1 DEF PqTypeOK
<1>9. PqTypeOK' /\ OpenUnheard' /\ OpenLatest' /\ PqAccounted'
  BY <1>1, <1>2, <1>7, <1>8, TakeKeeps
<1>10. pqIn' = pqIn \ S /\ UNCHANGED pqPushes
  BY <1>1 DEF Take
<1>11. LastPushed'
  <2> SUFFICES ASSUME NEW pr \in PqProducers \X PqRanks, pqLast'[pr] # 0
               PROVE  pqLast'[pr] \in DOMAIN pqPushes /\ pqPushes[pqLast'[pr]].by = pr[1]
    BY <1>10 DEF LastPushed, PqRanks
  <2>1. CASE pqLast'[pr] = pqLast[pr]
    BY <2>1 DEF LastPushed
  <2>2. CASE pqLast'[pr] # pqLast[pr]
    BY <1>3, <1>6, <2>2
  <2> QED
    BY <2>1, <2>2
<1>12. PqInOrder'
  <2> SUFFICES ASSUME NEW i \in pqIn \ S
               PROVE  pqLast'[<<pqPushes[i].by, RankOf(i)>>] <= i
    BY <1>10 DEF PqInOrder, RankOf
  <2> DEFINE pr == <<pqPushes[i].by, RankOf(i)>>
  <2>1. pr \in PqProducers \X PqRanks /\ pr[2] = RankOf(i)
    BY PqPlaces DEF PqTypeOK
  <2>2. pqLast[pr] <= i
    BY DEF PqInOrder
  <2> HIDE DEF pr
  <2>3. ASSUME pqLast'[pr] = pqLast[pr] PROVE pqLast'[pr] <= i
    BY <2>2, <2>3
  <2>4. ASSUME pqLast'[pr] # pqLast[pr] PROVE pqLast'[pr] <= i
    <3>1. pqLast'[pr] \in S /\ RankOf(pqLast'[pr]) = RankOf(i)
      BY <1>6, <2>1, <2>4
    <3> QED
      BY <1>10, <3>1, TakenOlder DEF S
  <2>5. pqLast'[pr] <= i
    BY <2>3, <2>4
  <2> QED
    BY <2>5 DEF pr
<1> QED
  BY <1>9, <1>11, <1>12

LEMMA PqInvStep == PqInv /\ [PqNext]_pqVars => PqInv'
<1> SUFFICES ASSUME PqInv, [PqNext]_pqVars PROVE PqInv'
  OBVIOUS
<1>1. CASE \E p \in PqProducers, priority \in PqPriorities, vip \in BOOLEAN :
             PushCall(p, priority, vip)
  BY <1>1, PqInvPushCall
<1>2. CASE \E i \in pqOpen : Push(i) \/ PushUnheard(i)
  BY <1>2, PqInvPush, PqInvPushUnheard
<1>3. CASE \E n \in 1 .. 2 : Pop(n) \/ PopUnheard(n) \/ Unpush(n)
  <2> SUFFICES ASSUME NEW n \in 1 .. 2, Pop(n) \/ PopUnheard(n) \/ Unpush(n) PROVE PqInv'
    BY <1>3
  <2>1. First(pqIn, n) \in SUBSET pqIn /\ LastOf(pqIn, n) \in SUBSET pqIn
    BY DEF First, LastOf
  <2>2. CASE PopUnheard(n)
    BY <2>1, <2>2, PqInvTake DEF PopUnheard
  <2>3. CASE Unpush(n)
    BY <2>1, <2>3, PqInvTake DEF Unpush
  <2> QED
    BY <2>2, <2>3, PqInvPop
<1>4. CASE \E low, high \in PqPriorities, skip \in 0 .. 1 : DequeueRange(low, high, skip, 1)
  <2> SUFFICES ASSUME NEW low \in PqPriorities, NEW high \in PqPriorities, NEW skip \in 0 .. 1,
                      DequeueRange(low, high, skip, 1)
               PROVE  PqInv'
    BY <1>4
  <2> DEFINE read == ReadWindow(low, high, skip, 1)
  <2>1. read \in SUBSET pqIn
    BY DEF ReadWindow, First, InRange
  <2>2. Take(read) /\ UNCHANGED <<pqLast, pqLosses>>
    BY DEF DequeueRange, RemovedWindow, Take
  <2> QED
    BY <2>1, <2>2, PqInvTake
<1>5. CASE \E i \in pqIn : RemoveValue(i)
  <2> SUFFICES ASSUME NEW i \in pqIn, RemoveValue(i) PROVE PqInv'
    BY <1>5
  <2> QED
    BY PqInvTake DEF RemoveValue
<1>6. CASE UNCHANGED pqVars
  BY <1>6 DEF pqVars, PqInv, PqTypeOK, OpenUnheard, OpenLatest, LastPushed, PqAccounted, PqInOrder,
              RankOf, PqRanks
<1> QED
  BY <1>1, <1>2, <1>3, <1>4, <1>5, <1>6 DEF PqNext

\* Every push of a producer is accounted for, whatever replies are lost: once it
\* has returned it is in the queue or was handed out, and it is neither more
\* often than once and once per repetition of its command (push and retry_call,
\* dequeue_range, pop, unpush and remove of queues/priority.py).
THEOREM PushesAccounted == PqSpec => []PqAccounted
<1>1. PqInv => PqAccounted
  BY DEF PqInv
<1> QED
  BY <1>1, PqInvInit, PqInvStep, PTL DEF PqSpec

\* The pushes of one producer at one priority are popped in the order in which
\* they were made, for any producers, priorities and numbers of lost replies.
THEOREM PushesInOrder == PqSpec => []PqInOrder
<1>1. PqInv => PqInOrder
  BY DEF PqInv
<1> QED
  BY <1>1, PqInvInit, PqInvStep, PTL DEF PqSpec

----------------------------------------------------------------------------
\* The post-processing.

\* Whatever is under way descends from the submission of the user and has its
\* delete_after; the archive is asked only where there is one.
OneWish ==
  /\ \A s \in ppUnderWay : \E r \in ppRoot : s.deleteAfter = r.deleteAfter
  /\ \A r, s \in ppRoot : r = s
  /\ ppAsked # "no" =>
       PpArchiveOn /\ \E r \in ppRoot : r.deleteAfter = (ppAsked = "delete")

PpInv == PpTypeOK /\ OneWish /\ ArchiveKept

LEMMA ServiceNames ==
  /\ \A matching \in SUBSET PpActions : Additional(matching) \in SUBSET PpNames
  /\ \A selected \in PpSelections : selected \in SUBSET PpNames
  /\ \A n \in DOMAIN PpCategories : PpCategories[n] \in SUBSET PpNames
  /\ PpMinimum \in SUBSET PpNames
<1>1. \A a \in PpActions : a.services \subseteq PpNames
  <2> TAKE a \in PpActions
  <2> DEFINE U == UNION {b.services : b \in PpActions}
  <2>1. a.services \subseteq U
    OBVIOUS
  <2>2. U \subseteq PpNames
    BY DEF PpNames
  <2> HIDE DEF U
  <2> QED
    BY <2>1, <2>2
<1>2. \A matching \in SUBSET PpActions : Additional(matching) \in SUBSET PpNames
  <2> SUFFICES ASSUME NEW matching \in SUBSET PpActions, NEW x \in Additional(matching)
               PROVE  x \in PpNames
    OBVIOUS
  <2>1. PICK a \in matching : x \in a.services
    BY DEF Additional
  <2> QED
    BY <1>1, <2>1
<1>3. \A n \in DOMAIN PpCategories : PpCategories[n] \in SUBSET PpNames
  <2> TAKE n \in DOMAIN PpCategories
  <2> DEFINE U == UNION {PpCategories[m] : m \in DOMAIN PpCategories}
  <2>1. PpCategories[n] \subseteq U
    OBVIOUS
  <2>2. U \subseteq PpNames
    BY DEF PpNames
  <2> HIDE DEF U
  <2> QED
    BY <2>1, <2>2
<1>4. \A S \in PpSelections \cup {PpMinimum} : S \in SUBSET PpNames
  <2> TAKE S \in PpSelections \cup {PpMinimum}
  <2>1. S \subseteq UNION (PpSelections \cup {PpMinimum})
    OBVIOUS
  <2> QED
    BY <2>1 DEF PpNames
<1> QED
  BY <1>2, <1>3, <1>4

LEMMA ExpandNames ==
  ASSUME NEW names \in SUBSET PpNames
  PROVE  Expand(names) \in SUBSET PpNames
<1> SUFFICES ASSUME NEW x \in Expand(names) PROVE x \in PpNames
  OBVIOUS
<1>1. CASE x \in names
  BY <1>1
<1>2. CASE x \notin names
  <2>1. PICK n \in names \cap DOMAIN PpCategories : x \in PpCategories[n]
    BY <1>2 DEF Expand
  <2> QED
    BY <2>1, ServiceNames
<1> QED
  BY <1>1, <1>2

LEMMA ResubmissionsCarry ==
  ASSUME NEW s \in PpSubmissions, NEW matching \in SUBSET PpActions,
         NEW t \in Resubmissions(s, matching)
  PROVE  t \in PpSubmissions /\ t.deleteAfter = s.deleteAfter
<1> DEFINE first  == [s EXCEPT !.selected = SubmitTo(s, matching)]
           second == [first EXCEPT !.resubmit = {}]
           third  == [second EXCEPT !.extended = TRUE]
<1>1. SubmitTo(s, matching) \in SUBSET PpNames
  BY ServiceNames DEF SubmitTo, PpSubmissions
<1>2. t = third
  BY DEF Resubmissions
<1>3. first \in PpSubmissions /\ first.deleteAfter = s.deleteAfter
  BY <1>1 DEF PpSubmissions
<1> HIDE DEF first
<1>4. second \in PpSubmissions /\ second.deleteAfter = first.deleteAfter
  BY <1>3 DEF PpSubmissions
<1> HIDE DEF second
<1>5. third \in PpSubmissions /\ third.deleteAfter = second.deleteAfter
  BY <1>4 DEF PpSubmissions
<1> QED
  BY <1>2, <1>3, <1>4, <1>5

LEMMA ArchiveAgainCarries ==
  ASSUME NEW s \in PpSubmissions
  PROVE  /\ ArchiveAgain(s) \in PpSubmissions
         /\ ArchiveAgain(s).archive = TRUE
         /\ ArchiveAgain(s).deleteAfter = s.deleteAfter
<1> DEFINE first == [s EXCEPT !.selected = Expand(s.selected) \cup Expand(PpMinimum)]
           second == [first EXCEPT !.archive = TRUE]
<1>1. Expand(s.selected) \cup Expand(PpMinimum) \in SUBSET PpNames
  <2>1. s.selected \in SUBSET PpNames
    BY DEF PpSubmissions
  <2> QED
    BY <2>1, ExpandNames, ServiceNames
<1>2. ArchiveAgain(s) = second
  BY DEF ArchiveAgain
<1>3. first \in PpSubmissions /\ first.deleteAfter = s.deleteAfter
  BY <1>1 DEF PpSubmissions
<1> HIDE DEF first
<1>4. second \in PpSubmissions /\ second.archive = TRUE /\ second.deleteAfter = first.deleteAfter
  BY <1>3 DEF PpSubmissions
<1> QED
  BY <1>2, <1>3, <1>4

LEMMA PpInvInit == PpInit => PpInv
BY DEF PpInit, PpInv, PpTypeOK, OneWish, ArchiveKept

LEMMA PpInvSubmit ==
  ASSUME PpInv, NEW selected \in PpSelections, NEW resubmit \in PpSelections,
         NEW archive \in BOOLEAN, NEW deleteAfter \in BOOLEAN,
         Submit(selected, resubmit, archive, deleteAfter)
  PROVE  PpInv'
<1> DEFINE s == [selected |-> selected, resubmit |-> resubmit, extended |-> FALSE,
                 archive |-> archive, deleteAfter |-> deleteAfter, alert |-> TRUE]
<1>1. /\ ppRoot = {} /\ ppRoot' = {s} /\ ppUnderWay' = {s}
      /\ UNCHANGED <<ppAsked, ppArchive, ppAlerts>>
  BY DEF Submit
<1>2. s \in PpSubmissions
  BY ServiceNames DEF PpSubmissions
<1> HIDE DEF s
<1>3. ppAsked = "no"
  BY <1>1 DEF PpInv, OneWish
<1> QED
  BY <1>1, <1>2, <1>3 DEF PpInv, PpTypeOK, OneWish, ArchiveKept

LEMMA PpInvProcess ==
  ASSUME PpInv, NEW s \in ppUnderWay, NEW matching \in SUBSET PpActions, Process(s, matching)
  PROVE  PpInv'
<1> DEFINE archives == WantsArchive(s, matching) /\ PpArchiveOn
           again == IF archives /\ ~ Archivable(s) THEN {ArchiveAgain(s)} ELSE {}
           alert == IF s.alert /\ \E a \in matching : a.alert
                      THEN {ExtendedScan(s, matching)} ELSE {}
<1>1. /\ ppUnderWay' = (ppUnderWay \ {s}) \cup Resubmissions(s, matching) \cup again
      /\ ppArchive' = ppArchive \cup (IF archives /\ Archivable(s) THEN {s.deleteAfter} ELSE {})
      /\ ppAlerts' = ppAlerts \cup alert
      /\ ppAsked' = IF archives THEN (IF s.deleteAfter THEN "delete" ELSE "keep") ELSE ppAsked
      /\ UNCHANGED ppRoot
  BY DEF Process
<1>2. s \in PpSubmissions /\ s.deleteAfter \in BOOLEAN
  BY DEF PpInv, PpTypeOK, PpSubmissions
<1>3. \A t \in again : t = ArchiveAgain(s) /\ archives
  OBVIOUS
<1>4. \A t \in ppUnderWay' : \/ t \in ppUnderWay
                             \/ t \in PpSubmissions /\ t.deleteAfter = s.deleteAfter
  <2> SUFFICES ASSUME NEW t \in ppUnderWay', t \notin ppUnderWay
               PROVE  t \in PpSubmissions /\ t.deleteAfter = s.deleteAfter
    OBVIOUS
  <2>1. t \in Resubmissions(s, matching) \/ t \in again
    BY <1>1
  <2>2. CASE t \in Resubmissions(s, matching)
    BY <1>2, <2>2, ResubmissionsCarry
  <2>3. CASE t \in again
    BY <1>2, <1>3, <2>3, ArchiveAgainCarries
  <2> QED
    BY <2>1, <2>2, <2>3
<1>5. alert \subseteq {"skipped", "submitted"}
  BY DEF ExtendedScan
<1> HIDE DEF again, alert
<1>6. PpTypeOK'
  <2>1. ppUnderWay' \subseteq PpSubmissions
    BY <1>4 DEF PpInv, PpTypeOK
  <2>2. ppArchive' \subseteq BOOLEAN
    BY <1>1, <1>2 DEF PpInv, PpTypeOK
  <2> QED
    BY <1>1, <1>5, <2>1, <2>2 DEF PpInv, PpTypeOK
<1>7. PICK r \in ppRoot : r.deleteAfter = s.deleteAfter /\ \A q \in ppRoot : q = r
  BY DEF PpInv, OneWish
<1>8. \A t \in ppUnderWay : t.deleteAfter = s.deleteAfter
  BY <1>7 DEF PpInv, OneWish
<1>9. \A t \in ppUnderWay' : t.deleteAfter = s.deleteAfter
  BY <1>4, <1>8
<1>10. CASE archives
  <2>1. /\ ppAsked' \in {"delete", "keep"} /\ (ppAsked' = "delete") = s.deleteAfter
        /\ PpArchiveOn
    BY <1>1, <1>2, <1>10
  <2>2. OneWish'
    BY <1>1, <1>7, <1>9, <2>1 DEF OneWish
  <2>3. \/ s.deleteAfter \in ppArchive'
        \/ ArchiveAgain(s) \in ppUnderWay'
    BY <1>1, <1>10 DEF again
  <2>4. ArchiveKept'
    BY <1>2, <2>1, <2>3, ArchiveAgainCarries DEF ArchiveKept
  <2> QED
    BY <1>6, <2>2, <2>4 DEF PpInv
<1>11. CASE ~ archives
  <2>1. ppAsked' = ppAsked
    BY <1>1, <1>11
  <2>2. OneWish'
    BY <1>1, <1>7, <1>9, <2>1 DEF PpInv, OneWish
  <2>3. ppAsked # "no" => ~ s.archive
    BY <1>11 DEF PpInv, OneWish, WantsArchive
  <2>4. \A t \in ppUnderWay : t.archive /\ ppAsked # "no" => t \in ppUnderWay'
    BY <1>1, <2>3
  <2>5. ArchiveKept'
    BY <1>1, <2>1, <2>4 DEF PpInv, ArchiveKept
  <2> QED
    BY <1>6, <2>2, <2>5 DEF PpInv
<1> QED
  BY <1>10, <1>11

LEMMA PpInvStep == PpInv /\ [PpNext]_ppVars => PpInv'
<1> SUFFICES ASSUME PpInv, [PpNext]_ppVars PROVE PpInv'
  OBVIOUS
<1>1. CASE PpNext
  BY <1>1, PpInvSubmit, PpInvProcess DEF PpNext
<1>2. CASE UNCHANGED ppVars
  BY <1>2 DEF ppVars, PpInv, PpTypeOK, OneWish, ArchiveKept
<1> QED
  BY <1>1, <1>2

\* What post-processing sends again and again keeps the wish to be archived, and
\* with the delete_after the user gave: for any actions, categories, selections
\* and required services, what the archive was asked for is in its queue or
\* under way with the wish (ActionWorker.process, archive_submission).
THEOREM ArchiveAlwaysKept == PpSpec => []ArchiveKept
<1>1. PpInv => ArchiveKept
  BY DEF PpInv
<1> QED
  BY <1>1, PpInvInit, PpInvStep, PTL DEF PpSpec

----------------------------------------------------------------------------
\* All the machines around the workers, of which one runs.

WorkersInv == LockInv /\ QuotaInv /\ PqInv /\ RuleInv /\ CtrInv /\ PpInv

LEMMA WorkersInvInit == Init => WorkersInv
BY LockInvInit, QuotaInvInit, PqInvInit, RuleInvInit, CtrInvInit, PpInvInit DEF Init, WorkersInv

\* A step of one machine is a step of it and leaves the others alone.
LEMMA WorkersMove ==
  [Next]_vars => /\ [LockNext]_lockVars /\ [QuotaNext]_quotaVars /\ [PqNext]_pqVars
                 /\ [RuleNext]_ruleVars /\ [CtrNext]_ctrVars /\ [PpNext]_ppVars
BY DEF Next, vars, LockPart, QuotaPart, QueuePart, RulePart, CounterPart, PostPart

LEMMA WorkersInvStep == WorkersInv /\ [Next]_vars => WorkersInv'
BY WorkersMove, LockInvStep, QuotaInvStep, PqInvStep, RuleInvStep, CtrInvStep, PpInvStep
   DEF WorkersInv

(***************************************************************************)
(* The machines side by side keep what each keeps alone: every variable of *)
(* theirs has its type in every state, for any of their parameters.        *)
(***************************************************************************)
THEOREM WorkersTypeCorrect == Spec => []WorkersTypeOK
<1>1. WorkersInv => WorkersTypeOK
  BY DEF WorkersInv, WorkersTypeOK, LockInv, QuotaInv, PqInv, RuleInv, CtrInv, PpInv
<1> QED
  BY <1>1, WorkersInvInit, WorkersInvStep, PTL DEF Spec
=============================================================================
